---- MODULE Spec2Model ----
(***************************************************************************)
(* Corridor worker: the deterministic score calculator                     *)
(* (apps/worker/src/vibe/calculator.ts), the trend classifier and the      *)
(* incident cache (apps/worker/src/db/operations.ts), the incident         *)
(* normalizer (apps/worker/src/ai/client.ts), the run loop                 *)
(* (apps/worker/src/index.ts), the spatial matching                        *)
(* (apps/worker/src/spatial/matching.ts) and the segment aggregation       *)
(* (apps/worker/src/cdot/aggregator.ts).                                   *)
(*                                                                         *)
(* JavaScript numbers are modelled as exact rationals [num, den] in lowest *)
(* terms with den > 0; every arithmetic step of the source is one          *)
(* operator application below.                                             *)
(***************************************************************************)
EXTENDS Integers, Sequences, FiniteSets, TLC

VARIABLES segmentData, vibeResult, entries, trend, trendSpeed, statusBuffer, bufferTrend,
          liveDashboard, segmentLog,
          rawIncidents, normalized, newCount, cachedCount, callState, steps, earlier,
          incidentCache, cacheCall,
          env, pc, segIndex, errors, segmentsProcessed, incidentsNormalized,
          incidentsCached, effects, runResult, exitCode,
          segmentBounds, feature, matchResult,
          rawData, normalizedIncidents, segmentResults, worstCondition,
          incidentKind, suggestedPenalty

vars == <<segmentData, vibeResult, entries, trend, trendSpeed, statusBuffer, bufferTrend,
          liveDashboard, segmentLog,
          rawIncidents, normalized, newCount, cachedCount, callState, steps, earlier,
          incidentCache, cacheCall,
          env, pc, segIndex, errors, segmentsProcessed, incidentsNormalized,
          incidentsCached, effects, runResult, exitCode,
          segmentBounds, feature, matchResult,
          rawData, normalizedIncidents, segmentResults, worstCondition,
          incidentKind, suggestedPenalty>>

vibeVars == <<segmentData, vibeResult>>

trendVars == <<entries, trend, trendSpeed>>

bufferVars == <<statusBuffer, bufferTrend, liveDashboard, segmentLog>>

calculatorVars == <<vibeVars, trendVars, bufferVars>>

normalizerVars == <<rawIncidents, normalized, newCount, cachedCount, callState, steps, earlier>>

cacheVars == <<incidentCache, cacheCall>>

runVars == <<env, pc, segIndex, errors, segmentsProcessed, incidentsNormalized,
             incidentsCached, effects, runResult, exitCode>>

spatialVars == <<segmentBounds, feature, matchResult>>

aggregatorVars == <<rawData, normalizedIncidents, segmentResults, worstCondition>>

penaltyVars == <<incidentKind, suggestedPenalty>>

workerVars == <<normalizerVars, cacheVars, runVars, spatialVars, aggregatorVars, penaltyVars>>

(***************************************************************************)
(* Bounds                                                                  *)
(***************************************************************************)
MaxIncidents == 2

MaxEntries == 7

LongLen == 9

MaxRows == 6

(***************************************************************************)
(* Rational arithmetic                                                     *)
(***************************************************************************)
\* a nullable value is <<>> (null / not yet computed) or <<v>>
null == <<>>

Some(v) == <<v>>

Val(o) == o[1]

Abs(n) == IF n < 0 THEN -n ELSE n

RECURSIVE Gcd(_, _)
Gcd(a, b) == IF b = 0 THEN a ELSE Gcd(b, a % b)

Norm(n, d) ==
    LET s == IF d < 0 THEN -1 ELSE 1
        g == Gcd(Abs(n), Abs(d))
    IN  [num |-> (s * n) \div g, den |-> (s * d) \div g]

R(n) == [num |-> n, den |-> 1]

Q(n, d) == Norm(n, d)

RAdd(a, b) == Norm(a.num * b.den + b.num * a.den, a.den * b.den)

RSub(a, b) == Norm(a.num * b.den - b.num * a.den, a.den * b.den)

RMul(a, b) == Norm(a.num * b.num, a.den * b.den)

RDiv(a, b) == Norm(a.num * b.den, a.den * b.num)

RLt(a, b) == a.num * b.den < b.num * a.den

RLe(a, b) == a.num * b.den <= b.num * a.den

RGt(a, b) == RLt(b, a)

RGe(a, b) == RLe(b, a)

RMax(a, b) == IF RGe(a, b) THEN a ELSE b

RMin(a, b) == IF RLe(a, b) THEN a ELSE b

\* Math.round(x): nearest integer, ties towards +Infinity
MathRound(x) == (2 * x.num + x.den) \div (2 * x.den)

Round1_truncate(x) ==
    LET tenths == RMul(x, R(10)) IN RDiv(R(tenths.num \div tenths.den), R(10))

\* Math.round(x * 10) / 10
Round1(x) == RDiv(R(MathRound(RMul(x, R(10)))), R(10))

(***************************************************************************)
(* Text: a string is a sequence of one-character strings                   *)
(***************************************************************************)
UpperChars == <<"A", "B", "C", "D", "E", "F", "G", "H", "I", "J", "K", "L", "M", "N", "O", "P",
                "Q", "R", "S", "T", "U", "V", "W", "X", "Y", "Z">>

LowerChars == <<"a", "b", "c", "d", "e", "f", "g", "h", "i", "j", "k", "l", "m", "n", "o", "p",
                "q", "r", "s", "t", "u", "v", "w", "x", "y", "z">>

toLowerChar(c) ==
    IF \E i \in 1..Len(UpperChars) : UpperChars[i] = c
    THEN LowerChars[CHOOSE i \in 1..Len(UpperChars) : UpperChars[i] = c]
    ELSE c

toLowerCase(s) == [i \in 1..Len(s) |-> toLowerChar(s[i])]

includes(s, p) ==
    \E i \in 1..(Len(s) - Len(p) + 1) : SubSeq(s, i, i + Len(p) - 1) = p

(***************************************************************************)
(* Program constants                                                       *)
(***************************************************************************)
LANE_CLOSURE == 2

ROAD_CLOSURE == 5

ICY_CONDITIONS == 1

(***************************************************************************)
(* Score calculator (vibe/calculator.ts)                                   *)
(***************************************************************************)
calculateFlowScore_anomalyAfterNoData(currentTravelTime, freeFlowTravelTime, speedAnomalyDetected) ==
    IF currentTravelTime = null \/ Val(currentTravelTime) <= 0 THEN R(5)
    ELSE IF speedAnomalyDetected THEN R(10)
    ELSE LET ratio == RDiv(R(freeFlowTravelTime), R(Val(currentTravelTime)))
         IN  IF RGe(ratio, Q(9, 10)) THEN R(10)
             ELSE IF RGe(ratio, Q(5, 10))
                  THEN RAdd(R(5), RMul(RDiv(RSub(ratio, Q(5, 10)), Q(4, 10)), R(5)))
             ELSE IF RGe(ratio, Q(2, 10))
                  THEN RAdd(R(1), RMul(RDiv(RSub(ratio, Q(2, 10)), Q(3, 10)), R(4)))
             ELSE R(1)

calculateFlowScore_wrongSlope(currentTravelTime, freeFlowTravelTime, speedAnomalyDetected) ==
    IF speedAnomalyDetected THEN R(10)
    ELSE IF currentTravelTime = null \/ Val(currentTravelTime) <= 0 THEN R(5)
    ELSE LET ratio == RDiv(R(freeFlowTravelTime), R(Val(currentTravelTime)))
         IN  IF RGe(ratio, Q(9, 10)) THEN R(10)
             ELSE IF RGe(ratio, Q(5, 10))
                  THEN RAdd(R(5), RMul(RDiv(RSub(ratio, Q(5, 10)), Q(4, 10)), R(5)))
             ELSE IF RGe(ratio, Q(2, 10))
                  THEN RAdd(R(1), RMul(RDiv(RSub(ratio, Q(2, 10)), Q(3, 10)), R(5)))
             ELSE R(1)

calculateFlowScore(currentTravelTime, freeFlowTravelTime, speedAnomalyDetected) ==
    \* If speed anomaly detected (>85mph), assume free flow
    IF speedAnomalyDetected THEN R(10)
    \* No data - return neutral score
    ELSE IF currentTravelTime = null \/ Val(currentTravelTime) <= 0 THEN R(5)
    ELSE LET ratio == RDiv(R(freeFlowTravelTime), R(Val(currentTravelTime)))
         IN  IF RGe(ratio, Q(9, 10)) THEN R(10)
             ELSE IF RGe(ratio, Q(5, 10))
                  THEN RAdd(R(5), RMul(RDiv(RSub(ratio, Q(5, 10)), Q(4, 10)), R(5)))
             ELSE IF RGe(ratio, Q(2, 10))
                  THEN RAdd(R(1), RMul(RDiv(RSub(ratio, Q(2, 10)), Q(3, 10)), R(4)))
             ELSE R(1)

\* incidents.reduce((total, incident) => total + incident.penalty, 0)
RECURSIVE reduceFrom(_, _, _)
reduceFrom(incidents, i, total) ==
    IF i > Len(incidents) THEN total
    ELSE reduceFrom(incidents, i + 1, RAdd(total, incidents[i].penalty))

calculateIncidentPenalty_lastOnly(incidents) ==
    IF Len(incidents) = 0 THEN R(0) ELSE incidents[Len(incidents)].penalty

calculateIncidentPenalty(incidents) == reduceFrom(incidents, 1, R(0))

calculateWeatherPenalty_noFrozen(roadCondition, weatherSurface) ==
    LET road == IF roadCondition = null THEN <<>> ELSE toLowerCase(Val(roadCondition))
        surface == IF weatherSurface = null THEN <<>> ELSE toLowerCase(Val(weatherSurface))
        conditions == road \o <<" ">> \o surface
    IN  IF \/ includes(conditions, <<"i", "c", "y">>)
           \/ includes(conditions, <<"i", "c", "e">>)
           \/ includes(conditions, <<"s", "n", "o", "w">>)
        THEN R(ICY_CONDITIONS)
        ELSE R(0)

calculateWeatherPenalty(roadCondition, weatherSurface) ==
    LET road == IF roadCondition = null THEN <<>> ELSE toLowerCase(Val(roadCondition))
        surface == IF weatherSurface = null THEN <<>> ELSE toLowerCase(Val(weatherSurface))
        conditions == road \o <<" ">> \o surface
    IN  IF \/ includes(conditions, <<"i", "c", "y">>)
           \/ includes(conditions, <<"i", "c", "e">>)
           \/ includes(conditions, <<"s", "n", "o", "w">>)
           \/ includes(conditions, <<"f", "r", "o", "z", "e", "n">>)
        THEN R(ICY_CONDITIONS)
        ELSE R(0)

generateSummary(score, flowScore, incidentPenalty, weatherPenalty, data) ==
    IF data.speedAnomalyDetected
    THEN IF RGt(incidentPenalty, R(0))
         THEN "Data unclear, but incidents reported. Drive carefully."
         ELSE "Conditions look good, but data may be stale."
    ELSE IF RGe(score, R(9)) THEN "Smooth sailing! Perfect conditions."
    ELSE IF RGe(score, R(7))
         THEN IF RGt(weatherPenalty, R(0))
              THEN "Moving well, but watch for slick spots."
              ELSE "Looking good! Light traffic ahead."
    ELSE IF RGe(score, R(5))
         THEN IF RGt(incidentPenalty, R(0))
              THEN "Expect delays due to incident(s)."
              ELSE "Moderate traffic. Allow extra time."
    ELSE IF RGe(score, R(3))
         THEN IF RGe(incidentPenalty, R(ROAD_CLOSURE))
              THEN "Major incident ahead. Consider waiting."
              ELSE "Significant slowdowns. Grab dinner first?"
    ELSE IF RGe(incidentPenalty, R(ROAD_CLOSURE))
         THEN "Road closure reported. Check alternatives."
         ELSE "Heavy delays. Definitely wait this out."

calculateVibeScore_noFloor(data) ==
    LET flowScore == calculateFlowScore(data.travelTimeSeconds,
                                        data.freeFlowSeconds,
                                        data.speedAnomalyDetected)
        incidentPenalty == calculateIncidentPenalty(data.incidents)
        weatherPenalty == calculateWeatherPenalty(data.roadCondition, data.weatherSurface)
        score == RSub(RSub(flowScore, incidentPenalty), weatherPenalty)
    IN  [score |-> Round1(score),
         flowScore |-> flowScore,
         incidentPenalty |-> incidentPenalty,
         weatherPenalty |-> weatherPenalty,
         summary |-> generateSummary(score, flowScore, incidentPenalty, weatherPenalty, data)]

calculateVibeScore(data) ==
    LET flowScore == calculateFlowScore(data.travelTimeSeconds,
                                        data.freeFlowSeconds,
                                        data.speedAnomalyDetected)
        incidentPenalty == calculateIncidentPenalty(data.incidents)
        weatherPenalty == calculateWeatherPenalty(data.roadCondition, data.weatherSurface)
        score == RMax(R(0), RSub(RSub(flowScore, incidentPenalty), weatherPenalty))
    IN  [score |-> Round1(score),
         flowScore |-> flowScore,
         incidentPenalty |-> incidentPenalty,
         weatherPenalty |-> weatherPenalty,
         summary |-> generateSummary(score, flowScore, incidentPenalty, weatherPenalty, data)]

(***************************************************************************)
(* Inputs of the score calculator                                          *)
(***************************************************************************)
TravelTimes ==
    {null} \cup {Some(t) : t \in {-60, 0, 600, 660, 735, 800, 1000, 1200, 1500, 2400, 3000, 3600}}

FreeFlowTimes == {600, 1500}

\* penalties: the fallback heuristic's 0, 1, 2, 5 and model answers in 0..10
Penalties == {R(0), R(1), R(2), Q(5, 2), R(5), R(10)}

RoadConditions ==
    {null,
     Some(<<"D", "r", "y">>),
     Some(<<"I", "C", "Y", " ", "s", "p", "o", "t", "s">>),
     Some(<<"S", "n", "o", "w">>),
     Some(<<"F", "r", "o", "z", "e", "n">>),
     Some(<<"S", "l", "u", "s", "h", "y">>)}

WeatherSurfaces == {null, Some(<<"W", "e", "t">>), Some(<<"I", "c", "e">>)}

Incident(p) == [penalty |-> p]

VibeInit ==
    /\ segmentData \in [travelTimeSeconds : TravelTimes,
                        freeFlowSeconds : FreeFlowTimes,
                        speedAnomalyDetected : BOOLEAN,
                        incidents : {<<>>},
                        roadCondition : RoadConditions,
                        weatherSurface : WeatherSurfaces]
    /\ vibeResult = null
    /\ entries = <<>> /\ trend = null /\ trendSpeed = null
    /\ statusBuffer = <<>> /\ bufferTrend = null
    /\ liveDashboard = <<>> /\ segmentLog = <<>>
    /\ rawIncidents = <<>> /\ normalized = <<>> /\ newCount = 0 /\ cachedCount = 0
    /\ callState = "idle" /\ steps = <<>> /\ earlier = <<>>
    /\ incidentCache = {} /\ cacheCall = <<>>
    /\ env = {} /\ pc = "idle" /\ segIndex = 0 /\ errors = <<>>
    /\ segmentsProcessed = 0 /\ incidentsNormalized = 0 /\ incidentsCached = 0
    /\ effects = <<>> /\ runResult = <<>> /\ exitCode = <<>>
    /\ rawData = <<>> /\ normalizedIncidents = <<>> /\ segmentResults = <<>>
    /\ worstCondition = <<>> /\ incidentKind = <<>> /\ suggestedPenalty = <<>>
    /\ segmentBounds = <<>> /\ feature = <<>> /\ matchResult = <<>>

\* one more normalized incident matched to the segment
MatchIncident ==
    /\ vibeResult = null
    /\ Len(segmentData.incidents) < MaxIncidents
    /\ \E p \in Penalties :
          segmentData' = [segmentData EXCEPT !.incidents = Append(@, Incident(p))]
    /\ UNCHANGED <<vibeResult, trendVars, bufferVars, workerVars>>

CalculateVibeScore ==
    /\ vibeResult = null
    /\ vibeResult' = Some(calculateVibeScore(segmentData))
    /\ UNCHANGED <<segmentData, trendVars, bufferVars, workerVars>>

(***************************************************************************)
(* Trend classifier (db/operations.ts)                                     *)
(***************************************************************************)
RECURSIVE sumFrom(_, _, _)
sumFrom(nums, i, total) ==
    IF i > Len(nums) THEN total ELSE sumFrom(nums, i + 1, RAdd(total, nums[i]))

average(nums) ==
    IF Len(nums) = 0 THEN R(0) ELSE RDiv(sumFrom(nums, 1, R(0)), R(Len(nums)))

\* es.filter((e) => e.speed !== null)
RECURSIVE withSpeed(_)
withSpeed(es) ==
    IF Len(es) = 0 THEN <<>>
    ELSE IF Head(es).speed # null THEN <<Head(es)>> \o withSpeed(Tail(es))
    ELSE withSpeed(Tail(es))

\* e.vibe_score ?? 5
vibeOrDefault(e) == IF e.vibe_score = null THEN R(5) ELSE Val(e.vibe_score)

vibeScores(es) == [i \in 1..Len(es) |-> vibeOrDefault(es[i])]

speeds(es) == LET kept == withSpeed(es) IN [i \in 1..Len(kept) |-> R(Val(kept[i].speed))]

\* entries.slice(0, third)
recentThird(es) == SubSeq(es, 1, Len(es) \div 3)

\* entries.slice(-third)
olderThird(es) == SubSeq(es, Len(es) - (Len(es) \div 3) + 1, Len(es))

vibeThreshold == Q(5, 10)

speedThreshold == R(5)

calculateTrend_minThree(es) ==
    IF Len(es) < 3 THEN "STABLE"
    ELSE LET avgRecentVibe == average(vibeScores(recentThird(es)))
             avgOlderVibe == average(vibeScores(olderThird(es)))
         IN  IF RGt(RSub(avgRecentVibe, avgOlderVibe), vibeThreshold) THEN "IMPROVING"
             ELSE IF RGt(RSub(avgOlderVibe, avgRecentVibe), vibeThreshold) THEN "WORSENING"
             ELSE "STABLE"

calculateTrend_atThreshold(es) ==
    IF Len(es) < 6 THEN "STABLE"
    ELSE LET avgRecentVibe == average(vibeScores(recentThird(es)))
             avgOlderVibe == average(vibeScores(olderThird(es)))
         IN  IF RGe(RSub(avgRecentVibe, avgOlderVibe), vibeThreshold) THEN "IMPROVING"
             ELSE IF RGe(RSub(avgOlderVibe, avgRecentVibe), vibeThreshold) THEN "WORSENING"
             ELSE "STABLE"

\* score-only variant
calculateTrend(es) ==
    IF Len(es) < 6 THEN "STABLE"
    ELSE LET avgRecentVibe == average(vibeScores(recentThird(es)))
             avgOlderVibe == average(vibeScores(olderThird(es)))
         IN  IF RGt(RSub(avgRecentVibe, avgOlderVibe), vibeThreshold) THEN "IMPROVING"
             ELSE IF RGt(RSub(avgOlderVibe, avgRecentVibe), vibeThreshold) THEN "WORSENING"
             ELSE "STABLE"

calculateTrendSpeed_needsAgreement(es) ==
    IF Len(es) < 6 THEN "STABLE"
    ELSE LET avgRecentVibe == average(vibeScores(recentThird(es)))
             avgOlderVibe == average(vibeScores(olderThird(es)))
             avgRecentSpeed == average(speeds(recentThird(es)))
             avgOlderSpeed == average(speeds(olderThird(es)))
             vibeImproving == RGt(RSub(avgRecentVibe, avgOlderVibe), vibeThreshold)
             vibeWorsening == RGt(RSub(avgOlderVibe, avgRecentVibe), vibeThreshold)
             speedImproving == RGt(RSub(avgRecentSpeed, avgOlderSpeed), speedThreshold)
             speedWorsening == RGt(RSub(avgOlderSpeed, avgRecentSpeed), speedThreshold)
         IN  IF vibeImproving /\ (speedImproving \/ avgRecentSpeed = avgOlderSpeed)
             THEN "IMPROVING"
             ELSE IF vibeWorsening /\ (speedWorsening \/ avgRecentSpeed = avgOlderSpeed)
             THEN "WORSENING"
             ELSE "STABLE"

\* score + speed cross-check variant
calculateTrendSpeed(es) ==
    IF Len(es) < 6 THEN "STABLE"
    ELSE LET avgRecentVibe == average(vibeScores(recentThird(es)))
             avgOlderVibe == average(vibeScores(olderThird(es)))
             avgRecentSpeed == average(speeds(recentThird(es)))
             avgOlderSpeed == average(speeds(olderThird(es)))
             vibeImproving == RGt(RSub(avgRecentVibe, avgOlderVibe), vibeThreshold)
             vibeWorsening == RGt(RSub(avgOlderVibe, avgRecentVibe), vibeThreshold)
             speedImproving == RGt(RSub(avgRecentSpeed, avgOlderSpeed), speedThreshold)
             speedWorsening == RGt(RSub(avgOlderSpeed, avgRecentSpeed), speedThreshold)
         IN  IF vibeImproving /\ (speedImproving \/ avgRecentSpeed = avgOlderSpeed)
             THEN "IMPROVING"
             ELSE IF vibeWorsening /\ (speedWorsening \/ avgRecentSpeed = avgOlderSpeed)
             THEN "WORSENING"
             ELSE IF vibeImproving THEN "IMPROVING"
             ELSE IF vibeWorsening THEN "WORSENING"
             ELSE "STABLE"

(***************************************************************************)
(* Inputs of the trend classifier                                          *)
(***************************************************************************)
Sample(score, speed) == [vibe_score |-> score, speed |-> speed]

Samples ==
    {Sample(null, null),
     Sample(Some(Q(55, 10)), Some(60)),
     Sample(Some(Q(56, 10)), Some(50)),
     Sample(Some(Q(44, 10)), Some(70))}

LongSamples ==
    {Sample(null, null),
     Sample(Some(Q(56, 10)), Some(50)),
     Sample(Some(Q(44, 10)), Some(70))}

SeqsUpTo(S, n) == UNION {[1..k -> S] : k \in 0..n}

\* every list of up to MaxEntries samples, and the lists of LongLen samples
\* (thirds of three) over a smaller sample set
TrendInit ==
    /\ entries \in SeqsUpTo(Samples, MaxEntries) \cup [1..LongLen -> LongSamples]
    /\ trend = null
    /\ trendSpeed = null
    /\ segmentData = null /\ vibeResult = null
    /\ statusBuffer = <<>> /\ bufferTrend = null
    /\ liveDashboard = <<>> /\ segmentLog = <<>>
    /\ rawIncidents = <<>> /\ normalized = <<>> /\ newCount = 0 /\ cachedCount = 0
    /\ callState = "idle" /\ steps = <<>> /\ earlier = <<>>
    /\ incidentCache = {} /\ cacheCall = <<>>
    /\ env = {} /\ pc = "idle" /\ segIndex = 0 /\ errors = <<>>
    /\ segmentsProcessed = 0 /\ incidentsNormalized = 0 /\ incidentsCached = 0
    /\ effects = <<>> /\ runResult = <<>> /\ exitCode = <<>>
    /\ rawData = <<>> /\ normalizedIncidents = <<>> /\ segmentResults = <<>>
    /\ worstCondition = <<>> /\ incidentKind = <<>> /\ suggestedPenalty = <<>>
    /\ segmentBounds = <<>> /\ feature = <<>> /\ matchResult = <<>>

CalculateTrend ==
    /\ trend = null
    /\ trend' = Some(calculateTrend(entries))
    /\ UNCHANGED <<entries, trendSpeed, vibeVars, bufferVars, workerVars>>

CalculateTrendSpeed ==
    /\ trendSpeed = null
    /\ trendSpeed' = Some(calculateTrendSpeed(entries))
    /\ UNCHANGED <<entries, trend, vibeVars, bufferVars, workerVars>>

(***************************************************************************)
(* Status buffer (db/operations.ts) and the per-segment step of the run    *)
(* loop (index.ts).  The table is a sequence of rows in heap order; a row  *)
(* is stored at either end of the heap.  Time is in minutes.               *)
(***************************************************************************)
RunIntervalMinutes == 5

BufferWindowMinutes == 120

SegmentId == "eisenhower-tunnel"

\* where the clock stands after the rows stored so far
now == RunIntervalMinutes * (Len(statusBuffer) + 1)

\* one step of orderBy(desc(timestamp)): place row r in a list sorted descending
RECURSIVE insertDesc(_, _)
insertDesc(sorted, r) ==
    IF Len(sorted) = 0 THEN <<r>>
    ELSE IF r.timestamp > Head(sorted).timestamp THEN <<r>> \o sorted
    ELSE <<Head(sorted)>> \o insertDesc(Tail(sorted), r)

RECURSIVE orderByDescTimestamp(_)
orderByDescTimestamp(rows) ==
    IF Len(rows) = 0 THEN <<>>
    ELSE insertDesc(orderByDescTimestamp(Tail(rows)), Head(rows))

\* where(and(eq(segment_id, segmentId), gt(timestamp, cutoff)))
RECURSIVE whereRecent(_, _, _)
whereRecent(rows, segmentId, cutoff) ==
    IF Len(rows) = 0 THEN <<>>
    ELSE IF Head(rows).segment_id = segmentId /\ Head(rows).timestamp > cutoff
         THEN <<Head(rows)>> \o whereRecent(Tail(rows), segmentId, cutoff)
         ELSE whereRecent(Tail(rows), segmentId, cutoff)

getRecentBufferEntries_noOrderBy(rows, segmentId, clock) ==
    whereRecent(rows, segmentId, clock - BufferWindowMinutes)

getRecentBufferEntries(rows, segmentId, clock) ==
    orderByDescTimestamp(whereRecent(rows, segmentId, clock - BufferWindowMinutes))

\* the row insertStatusBuffer stores, placed at heap position k
insertStatusBuffer(rows, k, data, clock) ==
    LET row == [segment_id |-> data.segment_id,
                speed |-> data.speed,
                vibe_score |-> data.vibe_score,
                timestamp |-> clock]
    IN  SubSeq(rows, 1, k - 1) \o <<row>> \o SubSeq(rows, k, Len(rows))

BufferScores == {Some(R(4)), Some(R(6))}

BufferInit ==
    /\ statusBuffer = <<>>
    /\ bufferTrend = null
    /\ liveDashboard = null
    /\ segmentLog = <<>>
    /\ segmentData = null /\ vibeResult = null
    /\ entries = <<>> /\ trend = null /\ trendSpeed = null
    /\ rawIncidents = <<>> /\ normalized = <<>> /\ newCount = 0 /\ cachedCount = 0
    /\ callState = "idle" /\ steps = <<>> /\ earlier = <<>>
    /\ incidentCache = {} /\ cacheCall = <<>>
    /\ env = {} /\ pc = "idle" /\ segIndex = 0 /\ errors = <<>>
    /\ segmentsProcessed = 0 /\ incidentsNormalized = 0 /\ incidentsCached = 0
    /\ effects = <<>> /\ runResult = <<>> /\ exitCode = <<>>
    /\ rawData = <<>> /\ normalizedIncidents = <<>> /\ segmentResults = <<>>
    /\ worstCondition = <<>> /\ incidentKind = <<>> /\ suggestedPenalty = <<>>
    /\ segmentBounds = <<>> /\ feature = <<>> /\ matchResult = <<>>

\* the awaited steps of one segment, in program order
SegmentSteps == <<"calculateVibeScore", "getRecentBufferEntries", "insertStatusBuffer",
                  "upsertLiveDashboard", "saveVibeScoreHistory">>

effect(op, target, ok) == [op |-> op, target |-> target, ok |-> ok]

\* the effects of one segment whose first failing step is number failedStep
\* (Len(SegmentSteps) + 1 when none fails)
segmentEffects(logicalName, failedStep) ==
    [k \in 1..(IF failedStep > Len(SegmentSteps) THEN Len(SegmentSteps) ELSE failedStep)
        |-> effect(SegmentSteps[k], logicalName, k # failedStep)]

ProcessSegment_trendAfterInsert ==
    /\ Len(statusBuffer) < MaxRows
    /\ \E score \in BufferScores, k \in {1, Len(statusBuffer) + 1},
          failedStep \in 1..(Len(SegmentSteps) + 1) :
          LET inserted == insertStatusBuffer(statusBuffer, k,
                              [segment_id |-> SegmentId, speed |-> null, vibe_score |-> score],
                              now)
              recentEntries == getRecentBufferEntries(inserted, SegmentId, now)
              row == [segment_id |-> SegmentId, vibe_score |-> score,
                      trend |-> calculateTrend(recentEntries)]
          IN  /\ segmentLog' = segmentEffects(SegmentId, failedStep)
              /\ bufferTrend' = IF failedStep > 2 THEN Some(row.trend) ELSE bufferTrend
              /\ statusBuffer' \in IF failedStep > 3 THEN {inserted}
                                   ELSE IF failedStep = 3 THEN {statusBuffer, inserted}
                                   ELSE {statusBuffer}
              /\ liveDashboard' \in IF failedStep > 4 THEN {Some(row)}
                                    ELSE IF failedStep = 4 THEN {liveDashboard, Some(row)}
                                    ELSE {liveDashboard}
    /\ UNCHANGED <<vibeVars, trendVars, workerVars>>

\* runWorkerLoop, one segment: score, read history and classify, append the
\* sample, upsert the live row with the trend, save the audit row; an awaited
\* step may throw, and a write that throws may or may not have been stored
ProcessSegment ==
    /\ Len(statusBuffer) < MaxRows
    /\ \E score \in BufferScores, k \in {1, Len(statusBuffer) + 1},
          failedStep \in 1..(Len(SegmentSteps) + 1) :
          LET inserted == insertStatusBuffer(statusBuffer, k,
                              [segment_id |-> SegmentId, speed |-> null, vibe_score |-> score],
                              now)
              recentEntries == getRecentBufferEntries(statusBuffer, SegmentId, now)
              row == [segment_id |-> SegmentId, vibe_score |-> score,
                      trend |-> calculateTrend(recentEntries)]
          IN  /\ segmentLog' = segmentEffects(SegmentId, failedStep)
              /\ bufferTrend' = IF failedStep > 2 THEN Some(row.trend) ELSE bufferTrend
              /\ statusBuffer' \in IF failedStep > 3 THEN {inserted}
                                   ELSE IF failedStep = 3 THEN {statusBuffer, inserted}
                                   ELSE {statusBuffer}
              /\ liveDashboard' \in IF failedStep > 4 THEN {Some(row)}
                                    ELSE IF failedStep = 4 THEN {liveDashboard, Some(row)}
                                    ELSE {liveDashboard}
    /\ UNCHANGED <<vibeVars, trendVars, workerVars>>

(***************************************************************************)
(* Incident cache (db/operations.ts): one row per message hash             *)
(***************************************************************************)
\* select ... where message_hash = hash limit 1
getCachedIncident(table, hash) ==
    LET results == {row \in table : row.message_hash = hash}
    IN  IF results = {} THEN null
        ELSE LET cached == CHOOSE row \in results : TRUE
             IN  Some([summary |-> cached.normalized_text,
                       penalty |-> cached.severity_penalty])

setCachedIncident_append(table, hash, summary, penalty) ==
    table \cup {[message_hash |-> hash, normalized_text |-> summary,
                 severity_penalty |-> penalty]}

\* insert ... on conflict (message_hash) do nothing
setCachedIncident(table, hash, summary, penalty) ==
    IF \E row \in table : row.message_hash = hash
    THEN table
    ELSE table \cup {[message_hash |-> hash, normalized_text |-> summary,
                      severity_penalty |-> penalty]}

(***************************************************************************)
(* Incident normalizer (ai/client.ts)                                      *)
(***************************************************************************)
Alphabet == <<" ", ".", "A", "B", "a">>

CharCodes == <<32, 46, 65, 66, 97>>

charCodeAt(c) == CharCodes[CHOOSE i \in 1..Len(Alphabet) : Alphabet[i] = c]

\* a 32-bit integer as its two 16-bit halves <<high, low>>
RECURSIVE hashFrom(_, _, _)
hashFrom(message, i, hash) ==
    IF i > Len(message) THEN hash
    ELSE LET low  == hash[2] * 31 + charCodeAt(message[i])
             high == hash[1] * 31 + (low \div 65536)
         IN  hashFrom(message, i + 1, <<high % 65536, low % 65536>>)

ToInt32(halves) ==
    IF halves[1] >= 32768 THEN (halves[1] - 65536) * 65536 + halves[2]
    ELSE halves[1] * 65536 + halves[2]

HexDigits == <<"0", "1", "2", "3", "4", "5", "6", "7", "8", "9",
               "a", "b", "c", "d", "e", "f">>

RECURSIVE hexOf(_)
hexOf(n) ==
    IF n < 16 THEN <<HexDigits[n + 1]>>
    ELSE Append(hexOf(n \div 16), HexDigits[(n % 16) + 1])

\* Number.prototype.toString(16)
toString16(n) == IF n < 0 THEN <<"-">> \o hexOf(0 - n) ELSE hexOf(n)

hashMessage(message) == toString16(ToInt32(hashFrom(message, 1, <<0, 0>>)))

isSpace(c) == c = " "

\* message.replace(/\s+/g, ' ')
collapseWhitespace(message) ==
    LET kept   == {i \in 1..Len(message) :
                      ~(isSpace(message[i]) /\ i > 1 /\ isSpace(message[i - 1]))}
        nth(k) == CHOOSE i \in kept : Cardinality({j \in kept : j <= i}) = k
    IN  [k \in 1..Cardinality(kept) |-> message[nth(k)]]

trim(s) ==
    IF \A i \in 1..Len(s) : isSpace(s[i]) THEN <<>>
    ELSE LET first == CHOOSE i \in 1..Len(s) :
                          ~isSpace(s[i]) /\ \A j \in 1..(i - 1) : isSpace(s[j])
             last  == CHOOSE i \in 1..Len(s) :
                          ~isSpace(s[i]) /\ \A j \in (i + 1)..Len(s) : isSpace(s[j])
         IN  SubSeq(s, first, last)

substring(s, a, b) == SubSeq(s, a + 1, IF b < Len(s) THEN b ELSE Len(s))

suggestIncidentPenalty(incidentType, severity) ==
    LET typeLower == toLowerCase(incidentType)
    IN  IF \/ includes(typeLower, <<"c", "l", "o", "s", "u", "r", "e">>)
           \/ includes(typeLower, <<"c", "l", "o", "s", "e", "d">>)
           \/ includes(typeLower, <<"b", "l", "o", "c", "k", "e", "d">>)
        THEN ROAD_CLOSURE
        ELSE IF includes(typeLower, <<"l", "a", "n", "e">>)
                /\ includes(typeLower, <<"c", "l", "o", "s">>)
        THEN LANE_CLOSURE
        ELSE IF \/ includes(typeLower, <<"c", "r", "a", "s", "h">>)
                \/ includes(typeLower, <<"a", "c", "c", "i", "d", "e", "n", "t">>)
        THEN (IF severity = "major" THEN ROAD_CLOSURE ELSE LANE_CLOSURE)
        ELSE IF \/ includes(typeLower, <<"t", "r", "a", "c", "t", "i", "o", "n">>)
                \/ includes(typeLower, <<"c", "h", "a", "i", "n">>)
        THEN 1
        ELSE IF severity = "major" THEN LANE_CLOSURE
        ELSE IF severity = "moderate" THEN 1
        ELSE 0

fallbackNormalization(message, incidentType, severity) ==
    LET cut == substring(trim(collapseWhitespace(message)), 0, 80)
    IN  [summary |-> IF Len(cut) = 80 THEN substring(cut, 0, 77) \o <<".", ".", ".">>
                     ELSE cut,
         penalty |-> suggestIncidentPenalty(incidentType, severity)]

MaxIncidentList == 2

\* two messages with the same hash, and one that the fallback has to clean
Messages == {<<"A", "a">>, <<"B", "B">>, <<" ", "A", " ", " ", "a", " ">>}

IncidentIds == {"inc-1", "inc-2"}

SeverityOf(id) == IF id = "inc-1" THEN "major" ELSE "minor"

RawIncidents ==
    {[id |-> id, travelerInformationMessage |-> m,
      type |-> <<"C", "r", "a", "s", "h">>, severity |-> SeverityOf(id)] :
        id \in IncidentIds, m \in Messages}

\* what the external collaborator may answer for any message
AIResults == {[summary |-> <<"X">>, penalty |-> 3], [summary |-> <<"Y">>, penalty |-> 0]}

\* the cache as earlier runs may have left it
InitialCaches ==
    {{}, {[message_hash |-> hashMessage(<<"A", "a">>), normalized_text |-> <<"Z">>,
           severity_penalty |-> 4]}}

CacheHashes == {hashMessage(m) : m \in Messages}

CacheSummaries == {r.summary : r \in AIResults}

CachePenalties == {r.penalty : r \in AIResults}

NormalizerInit ==
    /\ rawIncidents \in SeqsUpTo(RawIncidents, MaxIncidentList)
    /\ incidentCache \in InitialCaches
    /\ normalized = <<>> /\ newCount = 0 /\ cachedCount = 0
    /\ callState = "running" /\ steps = <<>> /\ earlier = <<>>
    /\ cacheCall = <<>>
    /\ segmentData = null /\ vibeResult = null
    /\ entries = <<>> /\ trend = null /\ trendSpeed = null
    /\ statusBuffer = <<>> /\ bufferTrend = null
    /\ liveDashboard = <<>> /\ segmentLog = <<>>
    /\ env = {} /\ pc = "idle" /\ segIndex = 0 /\ errors = <<>>
    /\ segmentsProcessed = 0 /\ incidentsNormalized = 0 /\ incidentsCached = 0
    /\ effects = <<>> /\ runResult = <<>> /\ exitCode = <<>>
    /\ rawData = <<>> /\ normalizedIncidents = <<>> /\ segmentResults = <<>>
    /\ worstCondition = <<>> /\ incidentKind = <<>> /\ suggestedPenalty = <<>>
    /\ segmentBounds = <<>> /\ feature = <<>> /\ matchResult = <<>>

auditRecord(incident, hash, n, fromCache) ==
    [id |-> incident.id,
     originalMessage |-> incident.travelerInformationMessage,
     summary |-> n.summary,
     penalty |-> n.penalty,
     severity |-> incident.severity,
     incidentType |-> incident.type,
     fromCache |-> fromCache,
     cacheHash |-> hash]

\* what happened to one incident: the outcome of the cache lookup, of the
\* external call and of the cache write, whether the catch block ran, the
\* external result and the record pushed
step(lookup, external, cacheWrite, fallback, answer, record) ==
    [lookup |-> lookup, external |-> external, cacheWrite |-> cacheWrite,
     fallback |-> fallback, answer |-> answer, record |-> record]

\* the cache lookup throws: nothing catches it, the call rejects
LookupThrows ==
    /\ callState' = "rejected"
    /\ steps' = Append(steps, step("threw", "none", "none", FALSE, null, null))
    /\ UNCHANGED <<normalized, newCount, cachedCount, incidentCache>>

CacheHit(incident, hash, cached) ==
    LET record == auditRecord(incident, hash, cached, TRUE)
    IN  /\ normalized' = Append(normalized, record)
        /\ cachedCount' = cachedCount + 1
        /\ steps' = Append(steps, step("hit", "none", "none", FALSE, null, Some(record)))
        /\ UNCHANGED <<newCount, callState, incidentCache>>

ApplyFallback_notCounted(incident, hash, external, cacheWrite, answer) ==
    LET fallback == fallbackNormalization(incident.travelerInformationMessage,
                                          incident.type, incident.severity)
        record   == auditRecord(incident, hash, fallback, FALSE)
    IN  /\ normalized' = Append(normalized, record)
        /\ steps' = Append(steps,
                        step("miss", external, cacheWrite, TRUE, answer, Some(record)))
        /\ UNCHANGED <<newCount, cachedCount, callState>>

\* the catch block
ApplyFallback(incident, hash, external, cacheWrite, answer) ==
    LET fallback == fallbackNormalization(incident.travelerInformationMessage,
                                          incident.type, incident.severity)
        record   == auditRecord(incident, hash, fallback, FALSE)
    IN  /\ normalized' = Append(normalized, record)
        /\ newCount' = newCount + 1
        /\ steps' = Append(steps,
                        step("miss", external, cacheWrite, TRUE, answer, Some(record)))
        /\ UNCHANGED <<cachedCount, callState>>

CacheMiss_noCacheWrite(incident, hash) ==
    \/ /\ ApplyFallback(incident, hash, "failed", "none", null)
       /\ UNCHANGED incidentCache
    \/ \E r \in AIResults :
          LET record == auditRecord(incident, hash, r, FALSE)
          IN  /\ incidentCache' = incidentCache
              /\ normalized' = Append(normalized, record)
              /\ newCount' = newCount + 1
              /\ steps' = Append(steps,
                              step("miss", "succeeded", "stored", FALSE, Some(r), Some(record)))
              /\ UNCHANGED <<cachedCount, callState>>

\* the try block: the external call, then the cache write, then the push;
\* a throw of either one lands in the catch block.  A cache write that
\* throws may or may not have stored the row.
CacheMiss(incident, hash) ==
    \/ /\ ApplyFallback(incident, hash, "failed", "none", null)
       /\ UNCHANGED incidentCache
    \/ \E r \in AIResults :
          LET stored == setCachedIncident(incidentCache, hash, r.summary, r.penalty)
              record == auditRecord(incident, hash, r, FALSE)
          IN  \/ /\ incidentCache' = stored
                 /\ normalized' = Append(normalized, record)
                 /\ newCount' = newCount + 1
                 /\ steps' = Append(steps,
                                 step("miss", "succeeded", "stored", FALSE, Some(r), Some(record)))
                 /\ UNCHANGED <<cachedCount, callState>>
              \/ /\ incidentCache' \in {incidentCache, stored}
                 /\ ApplyFallback(incident, hash, "succeeded", "threw", Some(r))

\* normalizeIncidents, one iteration of the loop over the incidents
NormalizeIncident ==
    /\ callState = "running"
    /\ Len(steps) < Len(rawIncidents)
    /\ LET incident == rawIncidents[Len(steps) + 1]
           hash     == hashMessage(incident.travelerInformationMessage)
           cached   == getCachedIncident(incidentCache, hash)
       IN  \/ LookupThrows
           \/ /\ cached # null
              /\ CacheHit(incident, hash, Val(cached))
           \/ /\ cached = null
              /\ CacheMiss(incident, hash)
    /\ UNCHANGED <<rawIncidents, earlier, cacheCall, calculatorVars, runVars, spatialVars,
                   aggregatorVars, penaltyVars>>

\* return { normalized, normalizedWithAudit, newCount, cachedCount }
NormalizeReturn ==
    /\ callState = "running"
    /\ Len(steps) = Len(rawIncidents)
    /\ callState' = "resolved"
    /\ UNCHANGED <<rawIncidents, normalized, newCount, cachedCount, steps, earlier,
                   cacheVars, calculatorVars, runVars, spatialVars,
                   aggregatorVars, penaltyVars>>

\* scripts/vibe-poc.ts: the same incidents normalized again over the same cache
NormalizeAgain ==
    /\ callState = "resolved"
    /\ earlier = <<>>
    /\ steps # <<>>
    /\ earlier' = steps
    /\ normalized' = <<>> /\ newCount' = 0 /\ cachedCount' = 0
    /\ steps' = <<>>
    /\ callState' = "running"
    /\ UNCHANGED <<rawIncidents, cacheVars, calculatorVars, runVars, spatialVars,
                   aggregatorVars, penaltyVars>>

(***************************************************************************)
(* Calls on the incident cache, in any order (db/operations.ts)            *)
(***************************************************************************)
CacheInit ==
    /\ incidentCache = {}
    /\ cacheCall = <<>>
    /\ segmentData = null /\ vibeResult = null
    /\ entries = <<>> /\ trend = null /\ trendSpeed = null
    /\ statusBuffer = <<>> /\ bufferTrend = null
    /\ liveDashboard = <<>> /\ segmentLog = <<>>
    /\ rawIncidents = <<>> /\ normalized = <<>> /\ newCount = 0 /\ cachedCount = 0
    /\ callState = "idle" /\ steps = <<>> /\ earlier = <<>>
    /\ env = {} /\ pc = "idle" /\ segIndex = 0 /\ errors = <<>>
    /\ segmentsProcessed = 0 /\ incidentsNormalized = 0 /\ incidentsCached = 0
    /\ effects = <<>> /\ runResult = <<>> /\ exitCode = <<>>
    /\ rawData = <<>> /\ normalizedIncidents = <<>> /\ segmentResults = <<>>
    /\ worstCondition = <<>> /\ incidentKind = <<>> /\ suggestedPenalty = <<>>
    /\ segmentBounds = <<>> /\ feature = <<>> /\ matchResult = <<>>

\* one completed setCachedIncident call; the statement is atomic in the store
SetCachedIncident ==
    /\ \E hash \in CacheHashes, summary \in CacheSummaries, penalty \in CachePenalties :
          /\ incidentCache' = setCachedIncident(incidentCache, hash, summary, penalty)
          /\ cacheCall' = Some([op |-> "set", hash |-> hash, summary |-> summary,
                                penalty |-> penalty, returned |-> null])
    /\ UNCHANGED <<calculatorVars, normalizerVars, runVars, spatialVars,
                   aggregatorVars, penaltyVars>>

\* one completed getCachedIncident call
GetCachedIncident ==
    /\ \E hash \in CacheHashes :
          cacheCall' = Some([op |-> "get", hash |-> hash, summary |-> <<>>,
                             penalty |-> 0,
                             returned |-> getCachedIncident(incidentCache, hash)])
    /\ UNCHANGED <<incidentCache, calculatorVars, normalizerVars, runVars, spatialVars,
                   aggregatorVars, penaltyVars>>

(***************************************************************************)
(* The run: main and runWorkerLoop                                         *)
(***************************************************************************)
REQUIRED_ENV == {"CDOT_API_KEY", "ANTHROPIC_API_KEY", "DATABASE_URL"}

\* process.env[key]: undefined, the empty string or a value
EnvValues == {null, Some(<<>>), Some(<<"k">>)}

falsy(value) == value = null \/ Val(value) = <<>>

missingEnv(environment) == {key \in REQUIRED_ENV : falsy(environment[key])}

validateEnv_anyPresent(environment) == missingEnv(environment) = REQUIRED_ENV

\* TRUE when validateEnv throws
validateEnv(environment) == missingEnv(environment) # {}

Feeds == {"destinations", "incidents", "roadConditions", "weatherStations"}

\* logicalName of the configured segments
Segments == <<"The Gauntlet", "The Approach">>

\* newCount and cachedCount of a resolved normalizeIncidents call
IncidentCounts == {<<0, 0>>, <<1, 0>>, <<0, 1>>, <<1, 1>>}

segmentError(logicalName) == [kind |-> "Error processing", name |-> logicalName]

loopError == [kind |-> "Worker loop error", name |-> ""]

WorkerRunResult_successIfProcessed(errs, processed, normalizedCount, cached) ==
    [success |-> processed > 0,
     segmentsProcessed |-> processed,
     incidentsNormalized |-> normalizedCount,
     incidentsCached |-> cached,
     errors |-> errs]

WorkerRunResult(errs, processed, normalizedCount, cached) ==
    [success |-> Len(errs) = 0,
     segmentsProcessed |-> processed,
     incidentsNormalized |-> normalizedCount,
     incidentsCached |-> cached,
     errors |-> errs]

RunInit ==
    /\ env \in [REQUIRED_ENV -> EnvValues]
    /\ pc = "main"
    /\ segIndex = 0
    /\ errors = <<>>
    /\ segmentsProcessed = 0 /\ incidentsNormalized = 0 /\ incidentsCached = 0
    /\ effects = <<>>
    /\ runResult = null
    /\ exitCode = null
    /\ rawData = <<>> /\ normalizedIncidents = <<>> /\ segmentResults = <<>>
    /\ worstCondition = <<>> /\ incidentKind = <<>> /\ suggestedPenalty = <<>>
    /\ segmentData = null /\ vibeResult = null
    /\ entries = <<>> /\ trend = null /\ trendSpeed = null
    /\ statusBuffer = <<>> /\ bufferTrend = null
    /\ liveDashboard = <<>> /\ segmentLog = <<>>
    /\ rawIncidents = <<>> /\ normalized = <<>> /\ newCount = 0 /\ cachedCount = 0
    /\ callState = "idle" /\ steps = <<>> /\ earlier = <<>>
    /\ incidentCache = {} /\ cacheCall = <<>>
    /\ segmentBounds = <<>> /\ feature = <<>> /\ matchResult = <<>>

runUnchanged == UNCHANGED <<env, calculatorVars, normalizerVars, cacheVars, spatialVars,
                   aggregatorVars, penaltyVars>>

\* main: loadEnv(); validateEnv(); a throw reaches main's catch
ValidateEnv ==
    /\ pc = "main"
    /\ IF validateEnv(env)
       THEN /\ pc' = "exited"
            /\ exitCode' = Some(1)
       ELSE /\ pc' = "start"
            /\ UNCHANGED exitCode
    /\ UNCHANGED <<segIndex, errors, segmentsProcessed, incidentsNormalized,
                   incidentsCached, effects, runResult>>
    /\ runUnchanged

\* a step inside the outer try: it passes to the next position or its throw
\* is caught by the outer catch, which records one run-level error
OuterStep(op, next) ==
    \/ /\ effects' = Append(effects, effect(op, "", TRUE))
       /\ pc' = next
       /\ UNCHANGED errors
    \/ /\ effects' = Append(effects, effect(op, "", FALSE))
       /\ pc' = "complete"
       /\ errors' = Append(errors, loopError)

\* createWorkerRun, before the try: a throw rejects runWorkerLoop
CreateWorkerRun ==
    /\ pc = "start"
    /\ \/ /\ effects' = Append(effects, effect("createWorkerRun", "", TRUE))
          /\ pc' = "fetch"
          /\ UNCHANGED exitCode
       \/ /\ effects' = Append(effects, effect("createWorkerRun", "", FALSE))
          /\ pc' = "exited"
          /\ exitCode' = Some(1)
    /\ UNCHANGED <<segIndex, errors, segmentsProcessed, incidentsNormalized,
                   incidentsCached, runResult>>
    /\ runUnchanged

\* fetchAllData: each feed getter catches its own failure and returns []
FetchAllData ==
    /\ pc = "fetch"
    /\ \E degraded \in SUBSET Feeds :
          effects' = effects \o
              <<effect("fetch", "destinations", "destinations" \notin degraded),
                effect("fetch", "incidents", "incidents" \notin degraded),
                effect("fetch", "roadConditions", "roadConditions" \notin degraded),
                effect("fetch", "weatherStations", "weatherStations" \notin degraded)>>
    /\ pc' = "snapshot"
    /\ UNCHANGED <<segIndex, errors, segmentsProcessed, incidentsNormalized,
                   incidentsCached, runResult, exitCode>>
    /\ runUnchanged

SaveCdotSnapshot ==
    /\ pc = "snapshot"
    /\ OuterStep("saveCdotSnapshot", "normalize")
    /\ UNCHANGED <<segIndex, segmentsProcessed, incidentsNormalized, incidentsCached,
                   runResult, exitCode>>
    /\ runUnchanged

incidentsFetched ==
    \E k \in 1..Len(effects) :
        effects[k].op = "fetch" /\ effects[k].target = "incidents" /\ effects[k].ok

\* normalizeIncidents: resolves with its counts, or rejects into the outer catch
NormalizeIncidents ==
    /\ pc = "normalize"
    /\ \/ \E counts \in IncidentCounts :
             /\ incidentsFetched \/ counts = <<0, 0>>
             /\ incidentsNormalized' = counts[1]
             /\ incidentsCached' = counts[2]
             /\ effects' = Append(effects, effect("normalizeIncidents", "", TRUE))
             /\ pc' = IF counts = <<0, 0>> THEN "segments" ELSE "history"
             /\ UNCHANGED errors
       \/ /\ incidentsFetched
          /\ effects' = Append(effects, effect("normalizeIncidents", "", FALSE))
          /\ pc' = "complete"
          /\ errors' = Append(errors, loopError)
          /\ UNCHANGED <<incidentsNormalized, incidentsCached>>
    /\ UNCHANGED <<segIndex, segmentsProcessed, runResult, exitCode>>
    /\ runUnchanged

SaveIncidentHistory ==
    /\ pc = "history"
    /\ OuterStep("saveIncidentHistory", "segments")
    /\ UNCHANGED <<segIndex, segmentsProcessed, incidentsNormalized, incidentsCached,
                   runResult, exitCode>>
    /\ runUnchanged

ProcessOneSegment_noInnerTry ==
    /\ pc = "segments"
    /\ segIndex < Len(Segments)
    /\ LET logicalName == Segments[segIndex + 1]
       IN  \E failedStep \in 1..(Len(SegmentSteps) + 1) :
              /\ effects' = effects \o segmentEffects(logicalName, failedStep)
              /\ IF failedStep > Len(SegmentSteps)
                 THEN /\ segmentsProcessed' = segmentsProcessed + 1
                      /\ segIndex' = segIndex + 1
                      /\ UNCHANGED <<errors, pc>>
                 ELSE /\ errors' = Append(errors, loopError)
                      /\ pc' = "complete"
                      /\ UNCHANGED <<segmentsProcessed, segIndex>>
    /\ UNCHANGED <<incidentsNormalized, incidentsCached, runResult, exitCode>>
    /\ runUnchanged

\* the loop body over the segments, with its own try and catch
ProcessOneSegment ==
    /\ pc = "segments"
    /\ segIndex < Len(Segments)
    /\ LET logicalName == Segments[segIndex + 1]
       IN  \E failedStep \in 1..(Len(SegmentSteps) + 1) :
              /\ effects' = effects \o segmentEffects(logicalName, failedStep)
              /\ IF failedStep > Len(SegmentSteps)
                 THEN /\ segmentsProcessed' = segmentsProcessed + 1
                      /\ UNCHANGED errors
                 ELSE /\ errors' = Append(errors, segmentError(logicalName))
                      /\ UNCHANGED segmentsProcessed
    /\ segIndex' = segIndex + 1
    /\ UNCHANGED <<pc, incidentsNormalized, incidentsCached, runResult, exitCode>>
    /\ runUnchanged

\* cleanupOldBufferEntries, cleanupOldCacheEntries, cleanupOldAuditData
Cleanup ==
    /\ pc = "segments"
    /\ segIndex = Len(Segments)
    /\ OuterStep("cleanup", "complete")
    /\ UNCHANGED <<segIndex, segmentsProcessed, incidentsNormalized, incidentsCached,
                   runResult, exitCode>>
    /\ runUnchanged

\* completeWorkerRun, after the try, then the return; a throw rejects
\* runWorkerLoop and main's catch exits
CompleteWorkerRun ==
    /\ pc = "complete"
    /\ \/ /\ effects' = Append(effects, effect("completeWorkerRun", "", TRUE))
          /\ runResult' = Some(WorkerRunResult(errors, segmentsProcessed,
                                               incidentsNormalized, incidentsCached))
          /\ pc' = "returned"
          /\ UNCHANGED exitCode
       \/ /\ effects' = Append(effects, effect("completeWorkerRun", "", FALSE))
          /\ pc' = "exited"
          /\ exitCode' = Some(1)
          /\ UNCHANGED runResult
    /\ UNCHANGED <<segIndex, errors, segmentsProcessed, incidentsNormalized,
                   incidentsCached>>
    /\ runUnchanged

\* main: if (!result.success) process.exit(1)
MainExit ==
    /\ pc = "returned"
    /\ pc' = "exited"
    /\ exitCode' = Some(IF Val(runResult).success THEN 0 ELSE 1)
    /\ UNCHANGED <<segIndex, errors, segmentsProcessed, incidentsNormalized,
                   incidentsCached, effects, runResult>>
    /\ runUnchanged

(***************************************************************************)
(* Spatial matching (spatial/matching.ts)                                  *)
(***************************************************************************)
MaxMile == 2

MileMarkers == 0..MaxMile

Min(a, b) == IF a <= b THEN a ELSE b

Max(a, b) == IF a >= b THEN a ELSE b

getMileMarkerRange_asGiven(bounds) == [minMM |-> bounds.startMM, maxMM |-> bounds.endMM]

getMileMarkerRange(bounds) ==
    [minMM |-> Min(bounds.startMM, bounds.endMM),
     maxMM |-> Max(bounds.startMM, bounds.endMM)]

isMarkerInBounds(marker, bounds) ==
    LET range == getMileMarkerRange(bounds)
    IN  marker >= range.minMM /\ marker <= range.maxMM

rangesOverlap(range1, range2) ==
    range1.minMM <= range2.maxMM /\ range1.maxMM >= range2.minMM

\* findConditionsForSegment: the range of a condition and the overlap test
conditionRange(props) ==
    [minMM |-> Min(props.primaryMP, props.secondaryMP),
     maxMM |-> Max(props.primaryMP, props.secondaryMP)]

conditionOverlaps(bounds, props) ==
    rangesOverlap(getMileMarkerRange(bounds), conditionRange(props))

RoutePrefixes == {<<"I", "-">>, <<"U", "S", "-">>, <<"C", "O", "-">>, <<"S", "H", "-">>}

hasPrefix(s, p) == Len(s) >= Len(p) /\ toLowerCase(SubSeq(s, 1, Len(p))) = toLowerCase(p)

\* .replace(/^(I-|US-|CO-|SH-)/i, '')
stripRoutePrefix(s) ==
    IF \E p \in RoutePrefixes : hasPrefix(s, p)
    THEN LET p == CHOOSE q \in RoutePrefixes : hasPrefix(s, q)
         IN  SubSeq(s, Len(p) + 1, Len(s))
    ELSE s

\* .replace(/^0+/, '')
stripLeadingZeros(s) ==
    LET zeros == Cardinality({i \in 1..Len(s) : \A j \in 1..i : s[j] = "0"})
    IN  SubSeq(s, zeros + 1, Len(s))

routeMatches(routeName, routeId) ==
    LET normalizedRoute == stripLeadingZeros(stripRoutePrefix(routeName))
        normalizedId    == stripLeadingZeros(routeId)
    IN  normalizedRoute = normalizedId

\* routeName of an incident or condition as the feed may give it
RouteNames ==
    {<<"I", "-", "7", "0">>, <<"i", "-", "7", "0">>, <<"0", "7", "0">>,
     <<"0", "7", "0", "W">>, <<"U", "S", "-", "6">>, <<"I", "-", "2", "7", "0">>}

\* bounds.routeId of the segment configuration
RouteIds == {<<"0", "7", "0">>, <<"7", "0">>, <<"0", "0", "6">>}

directionMap ==
    {{<<"w">>, <<"w", "e", "s", "t">>, <<"w", "e", "s", "t", "b", "o", "u", "n", "d">>, <<"w", "b">>},
     {<<"e">>, <<"e", "a", "s", "t">>, <<"e", "a", "s", "t", "b", "o", "u", "n", "d">>, <<"e", "b">>},
     {<<"n">>, <<"n", "o", "r", "t", "h">>, <<"n", "o", "r", "t", "h", "b", "o", "u", "n", "d">>, <<"n", "b">>},
     {<<"s">>, <<"s", "o", "u", "t", "h">>, <<"s", "o", "u", "t", "h", "b", "o", "u", "n", "d">>, <<"s", "b">>}}

directionMatches_caseSensitive(incidentDir, segmentDir) ==
    LET normalizedIncident == trim(incidentDir)
        normalizedSegment  == trim(segmentDir)
    IN  \/ normalizedIncident = <<"b", "o", "t", "h">>
        \/ normalizedIncident = normalizedSegment
        \/ \E variants \in directionMap :
              normalizedIncident \in variants /\ normalizedSegment \in variants

directionMatches(incidentDir, segmentDir) ==
    LET normalizedIncident == trim(toLowerCase(incidentDir))
        normalizedSegment  == trim(toLowerCase(segmentDir))
    IN  \/ normalizedIncident = <<"b", "o", "t", "h">>
        \/ normalizedIncident = normalizedSegment
        \/ \E variants \in directionMap :
              normalizedIncident \in variants /\ normalizedSegment \in variants

\* props.direction of an incident as the feed may give it
RawDirections ==
    {<<"W">>,
     <<" ", "w", " ">>,
     <<"W", "e", "s", "t">>,
     <<"W", "E", "S", "T", "B", "O", "U", "N", "D">>,
     <<"w", "b">>,
     <<"E">>,
     <<"e", "a", "s", "t", "b", "o", "u", "n", "d">>,
     <<"n", "b">>,
     <<"S", "o", "u", "t", "h">>,
     <<"b", "o", "t", "h">>,
     <<" ", "B", "o", "t", "h">>,
     <<"n", "e">>,
     <<>>}

\* bounds.direction of the segment configuration
ConfigDirections ==
    {<<"w", "e", "s", "t">>,
     <<"W">>,
     <<"W", "e", "s", "t", "b", "o", "u", "n", "d">>,
     <<"e">>,
     <<"N", "B">>,
     <<"s">>,
     <<"n", "e">>,
     <<"b", "o", "t", "h">>}

\* the mile markers vary under one route and direction, and the route and
\* direction texts vary at mile marker 0
SpatialInit ==
    /\ segmentBounds \in
          {b \in [startMM : MileMarkers, endMM : MileMarkers, routeId : RouteIds,
                  direction : ConfigDirections] :
              \/ b.startMM = 0 /\ b.endMM = 0
              \/ b.routeId = <<"0", "7", "0">> /\ b.direction = <<"w", "e", "s", "t">>}
    /\ feature \in
          {f \in [startMarker : MileMarkers, primaryMP : MileMarkers,
                  secondaryMP : MileMarkers, routeName : RouteNames,
                  direction : RawDirections] :
              \/ f.startMarker = 0 /\ f.primaryMP = 0 /\ f.secondaryMP = 0
              \/ f.routeName = <<"I", "-", "7", "0">> /\ f.direction = <<"W">>}
    /\ matchResult = [inBounds |-> null, overlaps |-> null, route |-> null,
                      direction |-> null]
    /\ segmentData = null /\ vibeResult = null
    /\ entries = <<>> /\ trend = null /\ trendSpeed = null
    /\ statusBuffer = <<>> /\ bufferTrend = null
    /\ liveDashboard = <<>> /\ segmentLog = <<>>
    /\ rawIncidents = <<>> /\ normalized = <<>> /\ newCount = 0 /\ cachedCount = 0
    /\ callState = "idle" /\ steps = <<>> /\ earlier = <<>>
    /\ incidentCache = {} /\ cacheCall = <<>>
    /\ env = {} /\ pc = "idle" /\ segIndex = 0 /\ errors = <<>>
    /\ segmentsProcessed = 0 /\ incidentsNormalized = 0 /\ incidentsCached = 0
    /\ effects = <<>> /\ runResult = <<>> /\ exitCode = <<>>
    /\ rawData = <<>> /\ normalizedIncidents = <<>> /\ segmentResults = <<>>
    /\ worstCondition = <<>> /\ incidentKind = <<>> /\ suggestedPenalty = <<>>

spatialUnchanged ==
    UNCHANGED <<segmentBounds, feature, calculatorVars, normalizerVars, cacheVars, runVars,
                   aggregatorVars, penaltyVars>>

\* findIncidentsForSegment: the start marker of an incident against the bounds
IsMarkerInBounds ==
    /\ matchResult.inBounds = null
    /\ matchResult' = [matchResult EXCEPT
                          !.inBounds = Some(isMarkerInBounds(feature.startMarker, segmentBounds))]
    /\ spatialUnchanged

\* findConditionsForSegment: the span of a condition against the bounds
RangesOverlap ==
    /\ matchResult.overlaps = null
    /\ matchResult' = [matchResult EXCEPT
                          !.overlaps = Some(conditionOverlaps(segmentBounds, feature))]
    /\ spatialUnchanged

RouteMatches ==
    /\ matchResult.route = null
    /\ matchResult' = [matchResult EXCEPT
                          !.route = Some(routeMatches(feature.routeName, segmentBounds.routeId))]
    /\ spatialUnchanged

DirectionMatches ==
    /\ matchResult.direction = null
    /\ matchResult' = [matchResult EXCEPT
                          !.direction = Some(directionMatches(feature.direction,
                                                              segmentBounds.direction))]
    /\ spatialUnchanged

(***************************************************************************)
(* Segment aggregation (getWorstCondition in spatial/matching.ts, the      *)
(* aggregator's processSegments and getRawIncidents)                       *)
(***************************************************************************)
MaxFeed == 2

MAX_REASONABLE_SPEED_MPH == 85

\* config.segments: the two corridor segments, The Gauntlet given from its
\* higher to its lower mile marker
ConfiguredSegments ==
    <<[name |-> "The Gauntlet",
       destinationName |-> "070W224 Silverplume Chainup to Tunnel (East Entrance)",
       freeFlowSeconds |-> 600,
       bounds |-> [startMM |-> 224, endMM |-> 213, routeId |-> <<"0", "7", "0">>,
                   direction |-> <<"w", "e", "s", "t">>]],
      [name |-> "The Approach",
       destinationName |-> "070W266 Kipling to Idaho Springs",
       freeFlowSeconds |-> 1500,
       bounds |-> [startMM |-> 224, endMM |-> 228, routeId |-> <<"0", "7", "0">>,
                   direction |-> <<"w", "e", "s", "t">>]]>>

findDestinationForSegment_anyName(segment, destinations) ==
    IF destinations = <<>> THEN null ELSE Some(destinations[1])

\* destinations.find((dest) => dest.properties.name === targetName) ?? null
findDestinationForSegment(segment, destinations) ==
    LET match(dest) == dest.name = segment.destinationName
        found == SelectSeq(destinations, match)
    IN  IF found = <<>> THEN null ELSE Some(found[1])

findIncidentsForSegment_spanOverlap(segment, incidents) ==
    LET bounds == segment.bounds
        keep(props) ==
            /\ routeMatches(props.routeName, bounds.routeId)
            /\ directionMatches(props.direction, bounds.direction)
            /\ rangesOverlap(getMileMarkerRange(bounds),
                             [minMM |-> Min(props.startMarker, props.endMarker),
                              maxMM |-> Max(props.startMarker, props.endMarker)])
    IN  SelectSeq(incidents, keep)

findIncidentsForSegment(segment, incidents) ==
    LET bounds == segment.bounds
        keep(props) ==
            /\ routeMatches(props.routeName, bounds.routeId)
            /\ directionMatches(props.direction, bounds.direction)
            /\ isMarkerInBounds(props.startMarker, bounds)
    IN  SelectSeq(incidents, keep)

findConditionsForSegment(segment, conditions) ==
    LET bounds == segment.bounds
        keep(props) ==
            /\ routeMatches(props.routeName, bounds.routeId)
            /\ rangesOverlap(getMileMarkerRange(bounds), conditionRange(props))
    IN  SelectSeq(conditions, keep)

\* CONDITION_SEVERITY[description] ?? 0: a lookup by the whole key
CONDITION_SEVERITY(description) ==
    CASE description = <<"i", "c", "y">> -> 5
      [] description = <<"i", "c", "e">> -> 5
      [] description = <<"s", "n", "o", "w">> -> 4
      [] description = <<"s", "n", "o", "w", " ", "p", "a", "c", "k", "e", "d">> -> 4
      [] description = <<"s", "n", "o", "w", " ", "c", "o", "v", "e", "r", "e", "d">> -> 4
      [] description = <<"s", "l", "u", "s", "h">> -> 3
      [] description = <<"w", "e", "t">> -> 2
      [] description = <<"d", "r", "y">> -> 1
      [] OTHER -> 0

\* the condition descriptions in the order the two loops visit them
RECURSIVE currentConditionsFrom(_, _)
currentConditionsFrom(conditions, i) ==
    IF i > Len(conditions) THEN <<>>
    ELSE conditions[i].currentConditions \o currentConditionsFrom(conditions, i + 1)

RECURSIVE worstFrom(_, _, _, _)
worstFrom(current, i, worstSeverity, worstText) ==
    IF i > Len(current) THEN [severity |-> worstSeverity, condition |-> worstText]
    ELSE LET description == toLowerCase(current[i].conditionDescription)
             severity    == CONDITION_SEVERITY(description)
         IN  IF severity > worstSeverity
             THEN worstFrom(current, i + 1, severity, Some(current[i].conditionDescription))
             ELSE worstFrom(current, i + 1, worstSeverity, worstText)

getWorstCondition(conditions) ==
    LET worst == worstFrom(currentConditionsFrom(conditions, 1), 1, 0, null)
    IN  IF worst.severity <= 1 THEN null ELSE worst.condition

\* the first station that has a road surface sensor gives the reading
findWeatherSurface(stations) ==
    LET surfaceSensor(s) ==
            includes(toLowerCase(s.type),
                     <<"r", "o", "a", "d", " ", "s", "u", "r", "f", "a", "c", "e">>)
        hasSurface(station) == SelectSeq(station.sensors, surfaceSensor) # <<>>
        found == SelectSeq(stations, hasSurface)
    IN  IF found = <<>> THEN null
        ELSE Some(SelectSeq(found[1].sensors, surfaceSensor)[1].currentReading)

impliedSpeed_perMinute(distanceMiles, travelTimeSeconds) ==
    RDiv(distanceMiles, RDiv(R(travelTimeSeconds), R(60)))

\* distanceMiles / (travelTimeSeconds / 3600)
impliedSpeed(distanceMiles, travelTimeSeconds) ==
    RDiv(distanceMiles, RDiv(R(travelTimeSeconds), R(3600)))

\* the body of the loop of processSegments
processSegment(segment, data, normalizedList) ==
    LET destination == findDestinationForSegment(segment, data.destinations)
        distanceMiles == R(Abs(segment.bounds.startMM - segment.bounds.endMM))
        travelTimeSeconds ==
            IF destination # null THEN Some(Val(destination).travelTime) ELSE null
        impliedSpeedMph ==
            IF destination # null /\ Val(travelTimeSeconds) > 0
            THEN Some(impliedSpeed(distanceMiles, Val(travelTimeSeconds)))
            ELSE null
        speedAnomalyDetected ==
            impliedSpeedMph # null /\ RGt(Val(impliedSpeedMph), R(MAX_REASONABLE_SPEED_MPH))
        rawIncidentsInBounds == findIncidentsForSegment(segment, data.incidents)
        inBounds(ni) == \E k \in 1..Len(rawIncidentsInBounds) : rawIncidentsInBounds[k].id = ni.id
        segmentIncidents == SelectSeq(normalizedList, inBounds)
        segmentConditions == findConditionsForSegment(segment, data.conditions)
    IN  [segment |-> segment.name,
         freeFlowSeconds |-> segment.freeFlowSeconds,
         travelTimeSeconds |-> travelTimeSeconds,
         impliedSpeedMph |-> IF impliedSpeedMph # null /\ Val(impliedSpeedMph).num # 0
                             THEN Some(MathRound(Val(impliedSpeedMph)))
                             ELSE null,
         speedAnomalyDetected |-> speedAnomalyDetected,
         incidents |-> segmentIncidents,
         roadCondition |-> getWorstCondition(segmentConditions),
         weatherSurface |-> findWeatherSurface(data.weatherStations)]

processSegments(data, normalizedList) ==
    [k \in 1..Len(ConfiguredSegments) |-> processSegment(ConfiguredSegments[k], data, normalizedList)]

RECURSIVE incidentsOfSegmentsFrom(_, _)
incidentsOfSegmentsFrom(data, k) ==
    IF k > Len(ConfiguredSegments) THEN <<>>
    ELSE findIncidentsForSegment(ConfiguredSegments[k], data.incidents)
             \o incidentsOfSegmentsFrom(data, k + 1)

RECURSIVE firstOfEachId(_, _, _)
firstOfEachId(incidents, i, incidentIds) ==
    IF i > Len(incidents) THEN <<>>
    ELSE IF incidents[i].id \in incidentIds
         THEN firstOfEachId(incidents, i + 1, incidentIds)
         ELSE <<incidents[i]>> \o firstOfEachId(incidents, i + 1, incidentIds \cup {incidents[i].id})

getRawIncidents(data) == firstOfEachId(incidentsOfSegmentsFrom(data, 1), 1, {})

\* what the four feeds may hold
DestinationNames ==
    {"070W224 Silverplume Chainup to Tunnel (East Entrance)",
     "070W266 Kipling to Idaho Springs",
     "070W224 Silverplume Chainup to Tunnel"}

FeedTravelTimes == {0, 60, 465, 466, 720}

Destinations == [name : DestinationNames, travelTime : FeedTravelTimes]

I70 == <<"I", "-", "7", "0">>

FeedIncident(id, routeName, direction, startMarker, endMarker) ==
    [id |-> id, routeName |-> routeName, direction |-> direction,
     startMarker |-> startMarker, endMarker |-> endMarker]

FeedIncidents ==
    UNION {{FeedIncident(id, I70, <<"W">>, 215, 215),
            FeedIncident(id, I70, <<"W">>, 224, 224),
            FeedIncident(id, I70, <<"W">>, 226, 226),
            FeedIncident(id, I70, <<"W">>, 210, 215),
            FeedIncident(id, I70, <<"W">>, 222, 226),
            FeedIncident(id, I70, <<"E">>, 215, 215),
            FeedIncident(id, <<"U", "S", "-", "6">>, <<"W">>, 215, 215),
            FeedIncident(id, <<"0", "7", "0", "W">>, <<"W">>, 215, 215)} : id \in IncidentIds}

FeedCondition(primaryMP, secondaryMP, currentConditions) ==
    [routeName |-> I70, primaryMP |-> primaryMP, secondaryMP |-> secondaryMP,
     currentConditions |-> currentConditions]

ConditionLists ==
    {<<>>,
     <<[conditionDescription |-> <<"I", "c", "y">>]>>,
     <<[conditionDescription |-> <<"W", "e", "t">>], [conditionDescription |-> <<"I", "c", "y", " ", "S", "p", "o", "t", "s">>]>>,
     <<[conditionDescription |-> <<"D", "r", "y">>]>>,
     <<[conditionDescription |-> <<"S", "n", "o", "w", " ", "P", "a", "c", "k", "e", "d">>], [conditionDescription |-> <<"s", "n", "o", "w">>]>>,
     <<[conditionDescription |-> <<"S", "N", "O", "W">>], [conditionDescription |-> <<"s", "n", "o", "w", " ", "c", "o", "v", "e", "r", "e", "d">>]>>,
     <<[conditionDescription |-> <<"W", "e", "t">>], [conditionDescription |-> <<"S", "l", "u", "s", "h">>]>>,
     <<[conditionDescription |-> <<"F", "o", "g">>]>>}

FeedConditions ==
    {FeedCondition(213, 220, c) : c \in ConditionLists}
        \cup {FeedCondition(228, 226, <<[conditionDescription |-> <<"I", "c", "y">>]>>),
              FeedCondition(224, 224, <<[conditionDescription |-> <<"S", "l", "u", "s", "h">>]>>)}

Sensor(type, currentReading) == [type |-> type, currentReading |-> currentReading]

WeatherFeeds ==
    {<<[sensors |-> <<Sensor(<<"W", "i", "n", "d", " ", "G", "u", "s", "t">>, <<"1", "2">>)>>],
       [sensors |-> <<Sensor(<<"R", "o", "a", "d", " ", "S", "u", "r", "f", "a", "c", "e", " ", "S", "t", "a", "t", "u", "s">>, <<"W", "e", "t">>)>>]>>,
     <<[sensors |-> <<Sensor(<<"r", "o", "a", "d", " ", "s", "u", "r", "f", "a", "c", "e", " ", "s", "t", "a", "t", "u", "s">>, <<"I", "c", "e">>)>>]>>}

RawData(destinations, incidents, conditions, weatherStations) ==
    [destinations |-> destinations, incidents |-> incidents, conditions |-> conditions,
     weatherStations |-> weatherStations]

\* one feed varies at a time
RawDatas ==
    {RawData(d, <<>>, <<>>, <<>>) : d \in SeqsUpTo(Destinations, MaxFeed)}
        \cup {RawData(<<>>, i, <<>>, <<>>) : i \in SeqsUpTo(FeedIncidents, MaxFeed)}
        \cup {RawData(<<>>, <<>>, c, <<>>) : c \in SeqsUpTo(FeedConditions, MaxFeed)}
        \cup {RawData(<<>>, <<>>, <<>>, w) : w \in WeatherFeeds}

NormalizedPenalties == {R(2), R(5)}

AggregatorInit ==
    /\ rawData \in RawDatas
    /\ normalizedIncidents = null
    /\ segmentResults = null
    /\ worstCondition = null
    /\ segmentData = null /\ vibeResult = null
    /\ entries = <<>> /\ trend = null /\ trendSpeed = null
    /\ statusBuffer = <<>> /\ bufferTrend = null
    /\ liveDashboard = <<>> /\ segmentLog = <<>>
    /\ rawIncidents = <<>> /\ normalized = <<>> /\ newCount = 0 /\ cachedCount = 0
    /\ callState = "idle" /\ steps = <<>> /\ earlier = <<>>
    /\ incidentCache = {} /\ cacheCall = <<>>
    /\ env = {} /\ pc = "idle" /\ segIndex = 0 /\ errors = <<>>
    /\ segmentsProcessed = 0 /\ incidentsNormalized = 0 /\ incidentsCached = 0
    /\ effects = <<>> /\ runResult = <<>> /\ exitCode = <<>>
    /\ segmentBounds = <<>> /\ feature = <<>> /\ matchResult = <<>>
    /\ incidentKind = <<>> /\ suggestedPenalty = <<>>

aggregatorUnchanged ==
    UNCHANGED <<rawData, calculatorVars, normalizerVars, cacheVars, runVars, spatialVars,
                   penaltyVars>>

\* the incidents of the segments, each normalized to a record with its id
GetRawIncidents ==
    /\ normalizedIncidents = null
    /\ \E p \in NormalizedPenalties :
          LET raw == getRawIncidents(rawData)
          IN  normalizedIncidents' = Some([k \in 1..Len(raw) |-> [id |-> raw[k].id, penalty |-> p]])
    /\ UNCHANGED <<segmentResults, worstCondition>>
    /\ aggregatorUnchanged

ProcessSegments ==
    /\ normalizedIncidents # null
    /\ segmentResults = null
    /\ segmentResults' = Some(processSegments(rawData, Val(normalizedIncidents)))
    /\ UNCHANGED <<normalizedIncidents, worstCondition>>
    /\ aggregatorUnchanged

\* getWorstCondition over the condition feed
GetWorstCondition ==
    /\ worstCondition = null
    /\ worstCondition' = Some(getWorstCondition(rawData.conditions))
    /\ UNCHANGED <<normalizedIncidents, segmentResults>>
    /\ aggregatorUnchanged

(***************************************************************************)
(* The penalty suggested for an incident type (vibe/calculator.ts)         *)
(***************************************************************************)
\* incident type texts as the feed writes them
IncidentTypes ==
    {<<"R", "o", "a", "d", " ", "C", "l", "o", "s", "u", "r", "e">>,
     <<"R", "O", "A", "D", " ", "C", "L", "O", "S", "E", "D">>,
     <<"B", "l", "o", "c", "k", "e", "d">>,
     <<"L", "a", "n", "e", " ", "C", "l", "o", "s", "u", "r", "e">>,
     <<"l", "a", "n", "e", " ", "c", "l", "o", "s", "e", "d">>,
     <<"L", "a", "n", "e", " ", "C", "l", "o", "s", "i", "n", "g">>,
     <<"L", "a", "n", "e", " ", "B", "l", "o", "c", "k", "e", "d">>,
     <<"C", "r", "a", "s", "h">>,
     <<"A", "C", "C", "I", "D", "E", "N", "T">>,
     <<"T", "r", "a", "c", "t", "i", "o", "n", " ", "L", "a", "w">>,
     <<"C", "h", "a", "i", "n", " ", "L", "a", "w">>,
     <<"C", "o", "n", "s", "t", "r", "u", "c", "t", "i", "o", "n">>,
     <<"R", "o", "a", "d", " ", "W", "o", "r", "k">>,
     <<>>}

\* the feed's severity is a free string
Severities == {"major", "moderate", "minor", "unknown"}

PenaltyInit ==
    /\ incidentKind \in [type : IncidentTypes, severity : Severities]
    /\ suggestedPenalty = null
    /\ segmentData = null /\ vibeResult = null
    /\ entries = <<>> /\ trend = null /\ trendSpeed = null
    /\ statusBuffer = <<>> /\ bufferTrend = null
    /\ liveDashboard = <<>> /\ segmentLog = <<>>
    /\ rawIncidents = <<>> /\ normalized = <<>> /\ newCount = 0 /\ cachedCount = 0
    /\ callState = "idle" /\ steps = <<>> /\ earlier = <<>>
    /\ incidentCache = {} /\ cacheCall = <<>>
    /\ env = {} /\ pc = "idle" /\ segIndex = 0 /\ errors = <<>>
    /\ segmentsProcessed = 0 /\ incidentsNormalized = 0 /\ incidentsCached = 0
    /\ effects = <<>> /\ runResult = <<>> /\ exitCode = <<>>
    /\ segmentBounds = <<>> /\ feature = <<>> /\ matchResult = <<>>
    /\ rawData = <<>> /\ normalizedIncidents = <<>> /\ segmentResults = <<>>
    /\ worstCondition = <<>>

SuggestIncidentPenalty ==
    /\ suggestedPenalty = null
    /\ suggestedPenalty' = Some(suggestIncidentPenalty(incidentKind.type, incidentKind.severity))
    /\ UNCHANGED <<incidentKind, calculatorVars, normalizerVars, cacheVars, runVars,
                   spatialVars, aggregatorVars>>

(***************************************************************************)
(* Specifications                                                          *)
(***************************************************************************)
VibeNext == MatchIncident \/ CalculateVibeScore

TrendNext == CalculateTrend \/ CalculateTrendSpeed

BufferNext == ProcessSegment

CacheNext == SetCachedIncident \/ GetCachedIncident

RunNext ==
    \/ ValidateEnv \/ CreateWorkerRun \/ FetchAllData \/ SaveCdotSnapshot
    \/ NormalizeIncidents \/ SaveIncidentHistory \/ ProcessOneSegment \/ Cleanup
    \/ CompleteWorkerRun \/ MainExit

SpatialNext == IsMarkerInBounds \/ RangesOverlap \/ RouteMatches \/ DirectionMatches

NormalizerNext == NormalizeIncident \/ NormalizeReturn \/ NormalizeAgain

PenaltyNext == SuggestIncidentPenalty

AggregatorNext == GetRawIncidents \/ ProcessSegments \/ GetWorstCondition

SpecVibe == VibeInit /\ [][VibeNext]_vars

SpecTrend == TrendInit /\ [][TrendNext]_vars

SpecBuffer == BufferInit /\ [][BufferNext]_vars

SpecCache == CacheInit /\ [][CacheNext]_vars

SpecRun == RunInit /\ [][RunNext]_vars

SpecSpatial == SpatialInit /\ [][SpatialNext]_vars

SpecNormalizer == NormalizerInit /\ [][NormalizerNext]_vars

SpecPenalty == PenaltyInit /\ [][PenaltyNext]_vars

SpecAggregator == AggregatorInit /\ [][AggregatorNext]_vars

(***************************************************************************)
(* Properties of the score calculator (checked under SpecVibe)             *)
(***************************************************************************)
scored == vibeResult # null

result == Val(vibeResult)

withIncident(data, p) == [data EXCEPT !.incidents = Append(@, Incident(p))]

withoutLast(data) ==
    [data EXCEPT !.incidents = SubSeq(@, 1, Len(@) - 1)]

\* C1: for every SegmentData, calculateVibeScore returns a score with
\* 0 <= score <= 10.
C1_ScoreInRange ==
    scored => RGe(result.score, R(0)) /\ RLe(result.score, R(10))

\* the penalties exceed the flow score and the score stops at 0
C1_Witness ==
    /\ scored
    /\ RGt(RAdd(result.incidentPenalty, result.weatherPenalty), result.flowScore)
    /\ result.score = R(0)

\* C2: adding an incident with penalty > 0 never increases the score, and
\* adding any incident never lowers the incident penalty total.
C2_Monotone ==
    scored =>
        \A p \in Penalties :
            LET more == calculateVibeScore(withIncident(segmentData, p))
            IN  /\ RGt(p, R(0)) => RLe(more.score, result.score)
                /\ RGe(more.incidentPenalty, result.incidentPenalty)

\* the last incident added has a positive penalty and lowered the score
C2_Witness ==
    /\ scored
    /\ Len(segmentData.incidents) = 2
    /\ RGt(segmentData.incidents[2].penalty, R(0))
    /\ RLt(result.score, calculateVibeScore(withoutLast(segmentData)).score)
    /\ RGt(result.incidentPenalty, segmentData.incidents[1].penalty)

\* C3: with speedAnomalyDetected = true the flow sub-score is exactly 10,
\* whatever travelTimeSeconds is.
C3_AnomalyFlow ==
    scored /\ segmentData.speedAnomalyDetected => result.flowScore = R(10)

\* anomaly flag set on a segment whose travel time is missing
C3_Witness ==
    /\ scored
    /\ segmentData.speedAnomalyDetected
    /\ segmentData.travelTimeSeconds = null
    /\ result.flowScore = R(10)

\* C4 as stated: with incident penalty 0 and weather penalty 0 the score is
\* not below the flowScore of the same result.
C4_Original ==
    scored /\ result.incidentPenalty = R(0) /\ result.weatherPenalty = R(0)
        => RGe(result.score, result.flowScore)

\* C4 amended: with incident penalty 0 and weather penalty 0 the score is the
\* flowScore rounded to one decimal place, so it is below the flowScore by at
\* most 0.05.
C4_Amended ==
    scored /\ result.incidentPenalty = R(0) /\ result.weatherPenalty = R(0)
        => /\ RGe(result.score, RSub(result.flowScore, Q(5, 100)))
           /\ RLe(result.score, RAdd(result.flowScore, Q(5, 100)))
           /\ RMul(result.score, R(10)).den = 1

\* no penalties, and rounding moved the score below the flow sub-score
C4_Witness ==
    /\ scored
    /\ result.incidentPenalty = R(0)
    /\ result.weatherPenalty = R(0)
    /\ RLt(result.score, result.flowScore)

\* the reference piecewise function of C5, in closed form over the integers
\* f (free-flow seconds) and t (travel seconds)
FlowReference(travel, f) ==
    IF travel = null THEN R(5)
    ELSE LET t == Val(travel)
         IN  IF t <= 0 THEN R(5)
             ELSE IF 10 * f >= 9 * t THEN R(10)
             ELSE IF 2 * f >= t THEN Q(50 * f - 5 * t, 4 * t)
             ELSE IF 5 * f >= t THEN Q(40 * f - 5 * t, 3 * t)
             ELSE R(1)

\* C5: with no anomaly flag the flow sub-score equals the reference piecewise
\* function of ratio = freeFlowSeconds / travelTimeSeconds; travel time 2400 s
\* with free-flow 600 s gives 1.67 and 600 s with 600 s gives 10.
C5_FlowPiecewise ==
    scored /\ ~segmentData.speedAnomalyDetected =>
        /\ result.flowScore =
               FlowReference(segmentData.travelTimeSeconds, segmentData.freeFlowSeconds)
        /\ (segmentData.travelTimeSeconds = Some(2400) /\ segmentData.freeFlowSeconds = 600
               => MathRound(RMul(result.flowScore, R(100))) = 167)
        /\ (segmentData.travelTimeSeconds = Some(600) /\ segmentData.freeFlowSeconds = 600
               => result.flowScore = R(10))

\* the 2400 s / 600 s scenario, in the [0.2, 0.5) band
C5_Witness ==
    /\ scored
    /\ ~segmentData.speedAnomalyDetected
    /\ segmentData.travelTimeSeconds = Some(2400)
    /\ segmentData.freeFlowSeconds = 600
    /\ result.flowScore = Q(5, 3)

RECURSIVE PenaltySum(_)
PenaltySum(incidents) ==
    IF Len(incidents) = 0 THEN R(0)
    ELSE RAdd(incidents[Len(incidents)].penalty,
              PenaltySum(SubSeq(incidents, 1, Len(incidents) - 1)))

IceWords ==
    {<<"i", "c", "y">>, <<"i", "c", "e">>, <<"s", "n", "o", "w">>,
     <<"f", "r", "o", "z", "e", "n">>}

mentionsIce(text) ==
    text # null /\ \E w \in IceWords : includes(toLowerCase(Val(text)), w)

WeatherReference(data) ==
    IF mentionsIce(data.roadCondition) \/ mentionsIce(data.weatherSurface)
    THEN R(1) ELSE R(0)

Clamp(x, lo, hi) == RMin(RMax(x, lo), hi)

\* C6: score = clamp(flowScore - sum of incident penalties - weatherPenalty,
\* 0, 10) rounded to one decimal place, weatherPenalty being 1 when the road
\* condition or weather surface text contains icy/ice/snow/frozen and 0
\* otherwise.
C6_ScoreFormula ==
    scored =>
        /\ result.weatherPenalty = WeatherReference(segmentData)
        /\ result.incidentPenalty = PenaltySum(segmentData.incidents)
        /\ LET raw == RSub(RSub(result.flowScore, PenaltySum(segmentData.incidents)),
                           WeatherReference(segmentData))
               tenths == RMul(Clamp(raw, R(0), R(10)), R(10))
           IN  result.score = Q((2 * tenths.num + tenths.den) \div (2 * tenths.den), 10)

\* penalties 2 and 5 on a flow score of 10 give 3.0
C6_Witness ==
    /\ scored
    /\ result.flowScore = R(10)
    /\ Len(segmentData.incidents) = 2
    /\ segmentData.incidents[1].penalty = R(2)
    /\ segmentData.incidents[2].penalty = R(5)
    /\ result.weatherPenalty = R(0)
    /\ result.score = R(3)

\* the summaries of each score band, best band first
BandSummaries ==
    <<{"Smooth sailing! Perfect conditions."},
      {"Moving well, but watch for slick spots.", "Looking good! Light traffic ahead."},
      {"Expect delays due to incident(s).", "Moderate traffic. Allow extra time."},
      {"Major incident ahead. Consider waiting.", "Significant slowdowns. Grab dinner first?"},
      {"Road closure reported. Check alternatives.", "Heavy delays. Definitely wait this out."}>>

AnomalySummaries ==
    {"Data unclear, but incidents reported. Drive carefully.",
     "Conditions look good, but data may be stale."}

bandOf(score) ==
    IF RGe(score, R(9)) THEN 1
    ELSE IF RGe(score, R(7)) THEN 2
    ELSE IF RGe(score, R(5)) THEN 3
    ELSE IF RGe(score, R(3)) THEN 4
    ELSE 5

\* C27 (as stated): without the anomaly flag the summary is the one of the
\* band (>= 9, >= 7, >= 5, >= 3, else) that contains the returned, rounded
\* score; with the flag it is one of the two anomaly texts.
C27_SummaryBand ==
    scored =>
        IF segmentData.speedAnomalyDetected
        THEN result.summary \in AnomalySummaries
        ELSE result.summary \in BandSummaries[bandOf(result.score)]

(***************************************************************************)
(* Properties of the trend classifier (checked under SpecTrend)            *)
(***************************************************************************)
scoreOf(e) == IF e.vibe_score = null THEN R(5) ELSE Val(e.vibe_score)

\* mean score of entries lo..hi of a list, a null score counted as 5
RECURSIVE ScoreTotal(_, _, _)
ScoreTotal(es, lo, hi) ==
    IF lo > hi THEN R(0) ELSE RAdd(scoreOf(es[hi]), ScoreTotal(es, lo, hi - 1))

MeanScore(es, lo, hi) == RDiv(ScoreTotal(es, lo, hi), R(hi - lo + 1))

\* recent mean minus older mean over the k = floor(n/3) first and last entries
MeanDifference(es) ==
    LET n == Len(es)
        k == n \div 3
    IN  RSub(MeanScore(es, 1, k), MeanScore(es, n - k + 1, n))

RECURSIVE SpeedTotal(_, _, _)
SpeedTotal(es, lo, hi) ==
    IF lo > hi THEN 0
    ELSE (IF es[hi].speed = null THEN 0 ELSE Val(es[hi].speed)) + SpeedTotal(es, lo, hi - 1)

SpeedCount(es, lo, hi) == Cardinality({i \in lo..hi : es[i].speed # null})

\* C7: calculateTrend returns STABLE for every list of fewer than 6 samples,
\* in the score-only and in the score+speed variant.
C7_ShortListStable ==
    Len(entries) < 6 =>
        /\ trend # null => Val(trend) = "STABLE"
        /\ trendSpeed # null => Val(trendSpeed) = "STABLE"

\* five samples whose newest score is above the oldest by more than 0.5
C7_Witness ==
    /\ Len(entries) = 5
    /\ RGt(RSub(scoreOf(entries[1]), scoreOf(entries[5])), Q(1, 2))
    /\ trend = Some("STABLE")
    /\ trendSpeed = Some("STABLE")

\* C9: for n >= 6 samples ordered most-recent first and k = floor(n/3), the
\* trend is IMPROVING iff mean(k most recent) - mean(k oldest) > 0.5,
\* WORSENING iff mean(k oldest) - mean(k most recent) > 0.5, STABLE otherwise;
\* middle samples are ignored and a null score counts as 5.
C9_ThirdsComparison ==
    trend # null /\ Len(entries) >= 6 =>
        LET diff == MeanDifference(entries)
        IN  /\ Val(trend) = "IMPROVING" <=> RGt(diff, Q(1, 2))
            /\ Val(trend) = "WORSENING" <=> RLt(diff, Q(-1, 2))
            /\ Val(trend) = "STABLE" <=> (RLe(diff, Q(1, 2)) /\ RGe(diff, Q(-1, 2)))

\* the recent third (5.5 each) is exactly 0.5 above an oldest third of null
\* scores, around a middle that is lower than both
C9_Witness ==
    /\ trend = Some("STABLE")
    /\ Len(entries) = 7
    /\ MeanDifference(entries) = Q(1, 2)
    /\ entries[6].vibe_score = null /\ entries[7].vibe_score = null
    /\ \A i \in 3..5 : entries[i].vibe_score = Some(Q(44, 10))

\* thirds of three samples, the recent third more than 0.5 above the oldest
C9_WitnessLong ==
    /\ trend = Some("IMPROVING")
    /\ Len(entries) = LongLen
    /\ Len(recentThird(entries)) = LongLen \div 3
    /\ RGt(MeanDifference(entries), Q(1, 2))

\* C10: the score+speed variant returns the same trend as the score-only
\* variant for every input list.
C10_VariantsAgree ==
    trend # null /\ trendSpeed # null => trendSpeed = trend

\* scores improve while the speeds of the recent third are more than 5 mph
\* below those of the oldest third
C10_Witness ==
    /\ trend = Some("IMPROVING")
    /\ trendSpeed = Some("IMPROVING")
    /\ Len(entries) >= 6
    /\ LET n == Len(entries)
           k == n \div 3
       IN  /\ SpeedCount(entries, 1, k) = k
           /\ SpeedCount(entries, n - k + 1, n) = k
           /\ SpeedTotal(entries, n - k + 1, n) - SpeedTotal(entries, 1, k) > 5 * k

(***************************************************************************)
(* Order of the samples (checked under SpecBuffer)                         *)
(***************************************************************************)
Swap(rows, i, j) ==
    [k \in 1..Len(rows) |-> IF k = i THEN rows[j] ELSE IF k = j THEN rows[i] ELSE rows[k]]

\* C8 as stated: calculateTrend returns the same trend for a list of
\* timestamped samples and for any permutation of it (here: for the list
\* with any two of its samples exchanged).
C8_Original ==
    \A i, j \in 1..Len(statusBuffer) :
        calculateTrend(Swap(statusBuffer, i, j)) = calculateTrend(statusBuffer)

RowSet(rows) == {rows[i] : i \in 1..Len(rows)}

\* the samples of a set listed by recency: entry i is the one with exactly
\* i - 1 samples more recent than it
ByRecency(S) ==
    [i \in 1..Cardinality(S) |->
        CHOOSE r \in S : Cardinality({q \in S : q.timestamp > r.timestamp}) = i - 1]

\* C8 amended: the trend does not depend on the order in which the samples
\* are stored: getRecentBufferEntries orders them by timestamp, most recent
\* first, so calculateTrend(getRecentBufferEntries(...)) is the trend of the
\* set of stored samples listed by recency, whatever their order in the table
\* (the samples have distinct timestamps); calculateTrend itself takes the
\* thirds by list position and needs its input ordered most recent first.
C8_Amended ==
    /\ \A i, j \in 1..Len(statusBuffer) :
          i # j => statusBuffer[i].timestamp # statusBuffer[j].timestamp
    /\ calculateTrend(getRecentBufferEntries(statusBuffer, SegmentId, now))
          = calculateTrend(ByRecency(RowSet(statusBuffer)))

\* six stored samples, not in timestamp order, whose trend by recency is not
\* the trend by heap position
C8_Witness ==
    /\ Len(statusBuffer) = 6
    /\ bufferTrend # null
    /\ calculateTrend(getRecentBufferEntries(statusBuffer, SegmentId, now)) = "IMPROVING"
    /\ calculateTrend(statusBuffer) = "WORSENING"

(***************************************************************************)
(* Order of the steps of one segment (checked under SpecBuffer)            *)
(***************************************************************************)
\* the steps ran in program order and only the last one may have thrown
inProgramOrder(log) ==
    /\ Len(log) <= 5
    /\ \A i \in 1..Len(log) :
          /\ log[i].op = <<"calculateVibeScore", "getRecentBufferEntries", "insertStatusBuffer",
                           "upsertLiveDashboard", "saveVibeScoreHistory">>[i]
          /\ i < Len(log) => log[i].ok

reached(log, op) == \E i \in 1..Len(log) : log[i].op = op

succeeded(log, op) == \E i \in 1..Len(log) : log[i].op = op /\ log[i].ok

\* the trend of the samples stored before this segment was processed
trendBefore == calculateTrend(ByRecency(RowSet(statusBuffer)))

\* C29: the steps of one segment run in the order score, history read and
\* trend, append to the status buffer, upsert of the live row; the trend in a
\* live row written by the run is the trend of the samples stored before the
\* run appended its own, and once the upsert has been reached (whether it
\* succeeds or throws) the sample is in the buffer.
C29_StepOrder ==
    [][/\ inProgramOrder(segmentLog')
       /\ reached(segmentLog', "upsertLiveDashboard") =>
             /\ Len(statusBuffer') = Len(statusBuffer) + 1
             /\ RowSet(statusBuffer) \subseteq RowSet(statusBuffer')
       /\ succeeded(segmentLog', "upsertLiveDashboard") =>
             /\ liveDashboard' # null
             /\ Val(liveDashboard').trend = trendBefore
       /\ liveDashboard' # liveDashboard =>
             /\ reached(segmentLog', "upsertLiveDashboard")
             /\ Val(liveDashboard').trend = trendBefore]_vars

\* the live upsert threw after a sample was appended that changes the trend
C29_Witness ==
    /\ reached(segmentLog, "upsertLiveDashboard")
    /\ ~succeeded(segmentLog, "upsertLiveDashboard")
    /\ Len(statusBuffer) >= 4
    /\ liveDashboard # null
    /\ bufferTrend # null
    /\ Val(bufferTrend) # calculateTrend(ByRecency(RowSet(statusBuffer)))

(***************************************************************************)
(* Properties of the incident normalizer (checked under SpecNormalizer)    *)
(***************************************************************************)
\* the incidents normalized so far over this cache, earlier call first
occurrences == earlier \o steps

normalizedAt(k) == occurrences[k].record # null

recordAt(k) == Val(occurrences[k].record)

\* occurrence j repeats the message of the earlier occurrence i
repeats(i, j) ==
    /\ i < j
    /\ normalizedAt(i) /\ normalizedAt(j)
    /\ recordAt(i).originalMessage = recordAt(j).originalMessage

servedAsFirst(i, j) ==
    /\ occurrences[j].lookup = "hit"
    /\ recordAt(j).fromCache
    /\ recordAt(j).summary = recordAt(i).summary
    /\ recordAt(j).penalty = recordAt(i).penalty

hitsCounted == cachedCount = Cardinality({k \in 1..Len(steps) : steps[k].lookup = "hit"})

C12_WriteFailureKeepsResult ==
    /\ callState # "rejected" \/ steps[Len(steps)].external # "succeeded"
    /\ \A k \in 1..Len(steps) :
          steps[k].external = "succeeded" =>
              /\ steps[k].cacheWrite \in {"stored", "threw"}
              /\ steps[k].cacheWrite = "stored" =>
                    getCachedIncident(incidentCache, Val(steps[k].record).cacheHash) # null
              /\ steps[k].record # null
              /\ Val(steps[k].record).summary = Val(steps[k].answer).summary
              /\ Val(steps[k].record).penalty = Val(steps[k].answer).penalty

failedAt(k) == steps[k].lookup = "threw" \/ steps[k].external = "failed"

fallbackRecord(k) ==
    LET incident == rawIncidents[k]
        fallback == [summary |-> trim(collapseWhitespace(incident.travelerInformationMessage)),
                     penalty |-> suggestIncidentPenalty(incident.type, incident.severity)]
    IN  /\ steps[k].record # null
        /\ Val(steps[k].record).summary = fallback.summary
        /\ Val(steps[k].record).penalty = fallback.penalty

\* C13 (as stated): normalizeIncidents never rejects; an incident whose
\* normalization fails anywhere (external call or cache lookup) is given the
\* local fallback, and the remaining incidents are still normalized.
C13_NeverRejects ==
    /\ callState # "rejected"
    /\ \A k \in 1..Len(steps) : failedAt(k) => fallbackRecord(k)
    /\ callState = "resolved" => Len(normalized) = Len(rawIncidents)

\* C14 (as stated): the external collaborator is called at most once per
\* incident and only after a cache miss; a cache hit returns the stored
\* summary and penalty verbatim with no external call, no cache write and
\* fromCache = true; the fallback is applied only after a failed external
\* attempt.
C14_StateMachine ==
    \A k \in 1..Len(steps) :
        LET s == steps[k]
        IN  /\ s.external # "none" => s.lookup = "miss"
            /\ s.lookup = "hit" =>
                  /\ s.external = "none" /\ s.cacheWrite = "none" /\ ~s.fallback
                  /\ Val(s.record).fromCache
                  /\ getCachedIncident(incidentCache, Val(s.record).cacheHash)
                        = Some([summary |-> Val(s.record).summary,
                                penalty |-> Val(s.record).penalty])
            /\ s.record # null /\ ~Val(s.record).fromCache => s.lookup = "miss"
            /\ s.fallback => s.external = "failed"

missesCounted == newCount = Cardinality({k \in 1..Len(steps) : steps[k].lookup = "miss"})

\* C28: whenever normalizeIncidents resolves, the normalized list holds one
\* record per input incident, in input order, each with the id, original
\* message and severity of its incident, and newCount + cachedCount is the
\* number of input incidents, a fallback being counted in newCount.
C28_OneRecordPerIncident ==
    callState = "resolved" =>
        /\ Len(normalized) = Len(rawIncidents)
        /\ \A k \in 1..Len(rawIncidents) :
              /\ normalized[k].id = rawIncidents[k].id
              /\ normalized[k].originalMessage = rawIncidents[k].travelerInformationMessage
              /\ normalized[k].severity = rawIncidents[k].severity
        /\ newCount + cachedCount = Len(rawIncidents)
        /\ missesCounted

C28_Witness ==
    /\ callState = "resolved"
    /\ Len(rawIncidents) = 2
    /\ rawIncidents[1].id # rawIncidents[2].id
    /\ steps[1].fallback
    /\ steps[2].lookup = "hit"
    /\ newCount = 1 /\ cachedCount = 1

\* occurrence i stored the cache entry that occurrence j was answered from
servedFrom(i, j) ==
    /\ i < j
    /\ occurrences[i].cacheWrite = "stored"
    /\ occurrences[j].lookup = "hit"
    /\ recordAt(j).cacheHash = recordAt(i).cacheHash

\* C30 (as stated): an incident is answered from the cache entry that another
\* incident stored only if the two message texts are identical.
C30_DistinctMessagesDistinctEntries ==
    \A i, j \in 1..Len(occurrences) :
        servedFrom(i, j) => recordAt(j).originalMessage = recordAt(i).originalMessage

(***************************************************************************)
(* Properties of the suggested penalty (checked under SpecPenalty)         *)
(***************************************************************************)
mentions(word) == includes(toLowerCase(incidentKind.type), word)

laneClosureType == mentions(<<"l", "a", "n", "e">>) /\ mentions(<<"c", "l", "o", "s">>)

fullClosureType ==
    /\ ~laneClosureType
    /\ \/ mentions(<<"c", "l", "o", "s", "u", "r", "e">>)
       \/ mentions(<<"c", "l", "o", "s", "e", "d">>)
       \/ mentions(<<"b", "l", "o", "c", "k", "e", "d">>)

crashType == mentions(<<"c", "r", "a", "s", "h">>) \/ mentions(<<"a", "c", "c", "i", "d", "e", "n", "t">>)

tractionType ==
    mentions(<<"t", "r", "a", "c", "t", "i", "o", "n">>) \/ mentions(<<"c", "h", "a", "i", "n">>)

\* C26 (as stated): the suggested penalty is 5 for a full closure or blocked
\* type, 2 for a lane-closure type, 5 for a crash or accident of major severity
\* and 2 for one of any other severity, 1 for a traction or chain requirement,
\* and otherwise 2, 1, 0 for severity major, moderate, anything else.
C26_PenaltyByType ==
    suggestedPenalty # null =>
        Val(suggestedPenalty) =
            IF fullClosureType THEN 5
            ELSE IF laneClosureType THEN 2
            ELSE IF crashType THEN (IF incidentKind.severity = "major" THEN 5 ELSE 2)
            ELSE IF tractionType THEN 1
            ELSE IF incidentKind.severity = "major" THEN 2
            ELSE IF incidentKind.severity = "moderate" THEN 1
            ELSE 0

(***************************************************************************)
(* Properties of the incident cache (checked under SpecCache)              *)
(***************************************************************************)
lastSet == cacheCall # null /\ Val(cacheCall).op = "set"

\* C15 (as stated): under any sequence of setCachedIncident calls the cache
\* holds at most one entry per hash, repeating a set with the same arguments
\* leaves the cache unchanged, and after set(hash, summary, penalty) completes
\* get(hash) returns {summary, penalty}.
C15_IdempotentUpsert ==
    /\ \A hash \in CacheHashes :
          Cardinality({row \in incidentCache : row.message_hash = hash}) <= 1
    /\ lastSet =>
          LET c == Val(cacheCall)
          IN  /\ setCachedIncident(incidentCache, c.hash, c.summary, c.penalty)
                    = incidentCache
              /\ getCachedIncident(incidentCache, c.hash)
                    = Some([summary |-> c.summary, penalty |-> c.penalty])

(***************************************************************************)
(* Properties of the run (checked under SpecRun)                           *)
(***************************************************************************)
segmentErrors == {j \in 1..Len(errors) : errors[j].kind = "Error processing"}

\* the segments handled so far in which some step threw
failedSegments ==
    {k \in 1..segIndex :
        \E j \in 1..Len(effects) : effects[j].target = Segments[k] /\ ~effects[j].ok}

loopLeft == pc \in {"complete", "returned", "exited"}

\* C16: an exception thrown while processing a segment is caught at that
\* segment: exactly one error naming it is recorded, segmentsProcessed is not
\* incremented for it, the remaining segments are still processed, and at
\* the end segmentsProcessed plus the per-segment errors is the number of
\* segments.
C16_SegmentIsolation ==
    /\ \A k \in failedSegments :
          Cardinality({j \in segmentErrors : errors[j].name = Segments[k]}) = 1
    /\ \A j \in segmentErrors : \E k \in failedSegments : errors[j].name = Segments[k]
    /\ segmentsProcessed = segIndex - Cardinality(failedSegments)
    /\ \A k \in 1..segIndex :
          k \notin failedSegments <=>
              \E j \in 1..Len(effects) :
                  effects[j] = effect("saveVibeScoreHistory", Segments[k], TRUE)
    /\ loopLeft /\ segIndex > 0 =>
          /\ segIndex = Len(Segments)
          /\ segmentsProcessed + Cardinality(segmentErrors) = Len(Segments)

C16_Witness ==
    /\ pc = "returned"
    /\ 1 \in failedSegments
    /\ 2 \notin failedSegments
    /\ segmentsProcessed = 1
    /\ Len(errors) = 1

nothingThrew == \A k \in 1..Len(effects) : effects[k].op # "fetch" => effects[k].ok

feedDegraded == \E k \in 1..Len(effects) : effects[k].op = "fetch" /\ ~effects[k].ok

\* C17: every run result reports segmentsProcessed, incidentsNormalized,
\* incidentsCached and the errors; success is true iff errors is empty; a feed
\* that failed and returned [] adds no error, so a run with degraded feeds
\* and no other failure is successful.
C17_SuccessIffNoErrors ==
    /\ pc = "snapshot" => errors = <<>>
    /\ runResult # null =>
          LET r == Val(runResult)
          IN  /\ DOMAIN r = {"success", "segmentsProcessed", "incidentsNormalized",
                             "incidentsCached", "errors"}
              /\ r.errors = errors
              /\ r.segmentsProcessed = segmentsProcessed
              /\ r.incidentsNormalized = incidentsNormalized
              /\ r.incidentsCached = incidentsCached
              /\ r.success <=> r.errors = <<>>
              /\ nothingThrew => r.success

C17_Witness ==
    /\ runResult # null
    /\ Val(runResult).success
    /\ feedDegraded
    /\ Val(runResult).segmentsProcessed = Len(Segments)

credentialMissing == \E key \in REQUIRED_ENV : env[key] = null \/ env[key] = Some(<<>>)

\* C18: with a required credential missing the run aborts before anything
\* else: no feed is fetched, no incident normalized, no row written, and the
\* process exits with status 1.
C18_MissingCredentialAborts ==
    credentialMissing =>
        /\ pc \in {"main", "exited"}
        /\ effects = <<>>
        /\ runResult = null
        /\ segIndex = 0 /\ segmentsProcessed = 0
        /\ incidentsNormalized = 0 /\ incidentsCached = 0
        /\ pc = "exited" => exitCode = Some(1)

C18_Witness ==
    /\ credentialMissing
    /\ env["CDOT_API_KEY"] = Some(<<"k">>)
    /\ env["ANTHROPIC_API_KEY"] = Some(<<"k">>)
    /\ pc = "exited"
    /\ exitCode = Some(1)

(***************************************************************************)
(* Properties of the spatial matching (checked under SpecSpatial)          *)
(***************************************************************************)
\* x lies on the stretch of road between a and b, whichever is larger
between(x, a, b) == IF a <= b THEN a <= x /\ x <= b ELSE b <= x /\ x <= a

swapped(bounds) == [bounds EXCEPT !.startMM = bounds.endMM, !.endMM = bounds.startMM]

swappedSpan(props) ==
    [props EXCEPT !.primaryMP = props.secondaryMP, !.secondaryMP = props.primaryMP]

\* the two stretches share a point (their ends are whole mile markers)
sharePoint(bounds, props) ==
    \E x \in MileMarkers :
        /\ between(x, bounds.startMM, bounds.endMM)
        /\ between(x, props.primaryMP, props.secondaryMP)

\* C19: in either orientation of the segment bounds and of the condition
\* span, isMarkerInBounds and the overlap test return what the min/max
\* reference returns, both ends inclusive; swapping start and end never
\* changes the result; a zero-length range overlaps a range containing its
\* point.
C19_OrientationFree ==
    /\ matchResult.inBounds # null =>
          /\ Val(matchResult.inBounds)
                = between(feature.startMarker, segmentBounds.startMM, segmentBounds.endMM)
          /\ Val(matchResult.inBounds)
                = isMarkerInBounds(feature.startMarker, swapped(segmentBounds))
    /\ matchResult.overlaps # null =>
          /\ Val(matchResult.overlaps) = sharePoint(segmentBounds, feature)
          /\ Val(matchResult.overlaps) = conditionOverlaps(swapped(segmentBounds), feature)
          /\ Val(matchResult.overlaps) = conditionOverlaps(segmentBounds, swappedSpan(feature))
          /\ segmentBounds.startMM = segmentBounds.endMM
                /\ between(segmentBounds.startMM, feature.primaryMP, feature.secondaryMP)
                => Val(matchResult.overlaps)

\* reversed bounds, reversed span, a marker on the inclusive end, and a
\* span that only touches the segment at one point
C19_Witness ==
    /\ matchResult.inBounds = Some(TRUE)
    /\ matchResult.overlaps = Some(TRUE)
    /\ segmentBounds.startMM > segmentBounds.endMM
    /\ feature.primaryMP > feature.secondaryMP
    /\ feature.startMarker = segmentBounds.startMM
    /\ feature.secondaryMP = segmentBounds.startMM

isDigit(c) == c \in {"0", "1", "2", "3", "4", "5", "6", "7", "8", "9"}

\* a three-digit route code followed by a direction letter
jointCode(s) ==
    /\ Len(s) = 4
    /\ \A i \in 1..3 : isDigit(s[i])
    /\ s[4] \in {"N", "S", "E", "W"}

\* the route a raw value denotes: prefix stripped, direction split out,
\* leading zeros dropped
routeOf(raw) ==
    LET bare  == stripRoutePrefix(raw)
        route == IF jointCode(bare) THEN SubSeq(bare, 1, 3) ELSE bare
    IN  stripLeadingZeros(route)

\* C20 (as stated): routeMatches is true exactly when the raw route name and
\* the configured route id denote the same route after stripping the
\* route-type prefix and leading zeros, the direction of a joint code such
\* as "070W" being split out first.
C20_SameRoute ==
    matchResult.route # null =>
        Val(matchResult.route)
            = (routeOf(feature.routeName) = stripLeadingZeros(segmentBounds.routeId))

DirectionWords ==
    {<<"w", "e", "s", "t">>, <<"e", "a", "s", "t">>, <<"n", "o", "r", "t", "h">>,
     <<"s", "o", "u", "t", "h">>}

\* single letter, full word, -bound form, two-letter abbreviation
spellings(word) ==
    {<<word[1]>>, word, word \o <<"b", "o", "u", "n", "d">>, <<word[1], "b">>}

cleaned(text) == trim(toLowerCase(text))

sameDirection(rawDirection, configDirection) ==
    \E word \in DirectionWords :
        cleaned(rawDirection) \in spellings(word) /\ cleaned(configDirection) \in spellings(word)

directionResult == Val(matchResult.direction)

\* C21 (as stated): directionMatches is true when the raw value is "both",
\* true when both values spell the same one of the four directions, and
\* false for every other pair.
C21_Original ==
    matchResult.direction # null =>
        directionResult
            = (\/ cleaned(feature.direction) = <<"b", "o", "t", "h">>
               \/ sameDirection(feature.direction, segmentBounds.direction))

\* C21 (amended): directionMatches ignores case and surrounding whitespace;
\* it is true when the raw value is "both", true when the two values are
\* equal, true when both spell the same one of the four directions, and
\* false for every other pair.
C21_Amended ==
    matchResult.direction # null =>
        directionResult
            = (\/ cleaned(feature.direction) = <<"b", "o", "t", "h">>
               \/ cleaned(feature.direction) = cleaned(segmentBounds.direction)
               \/ sameDirection(feature.direction, segmentBounds.direction))

C21_Witness ==
    /\ matchResult.direction = Some(TRUE)
    /\ matchResult.route = Some(TRUE)
    /\ feature.direction = <<"W">>
    /\ segmentBounds.direction = <<"w", "e", "s", "t">>
    /\ feature.routeName = <<"I", "-", "7", "0">>
    /\ segmentBounds.routeId = <<"0", "7", "0">>

(***************************************************************************)
(* Properties of segment aggregation (checked under SpecAggregator)        *)
(***************************************************************************)
\* the canonical labels with the rank of their bucket
CanonicalLabels ==
    {[label |-> <<"i", "c", "y">>, rank |-> 5], [label |-> <<"i", "c", "e">>, rank |-> 5],
     [label |-> <<"s", "n", "o", "w">>, rank |-> 4], [label |-> <<"s", "n", "o", "w", " ", "p", "a", "c", "k", "e", "d">>, rank |-> 4],
     [label |-> <<"s", "n", "o", "w", " ", "c", "o", "v", "e", "r", "e", "d">>, rank |-> 4], [label |-> <<"s", "l", "u", "s", "h">>, rank |-> 3],
     [label |-> <<"w", "e", "t">>, rank |-> 2], [label |-> <<"d", "r", "y">>, rank |-> 1]}

\* the highest bucket whose label the text contains, letter case aside
rankOf(text) ==
    LET found == {c.rank : c \in {l \in CanonicalLabels : includes(toLowerCase(text), l.label)}}
    IN  IF found = {} THEN 0 ELSE CHOOSE r \in found : \A q \in found : q <= r

observed == currentConditionsFrom(rawData.conditions, 1)

bestRank ==
    IF observed = <<>> THEN 0
    ELSE LET ranks == {rankOf(observed[i].conditionDescription) : i \in 1..Len(observed)}
         IN  CHOOSE r \in ranks : \A q \in ranks : q <= r

firstOfBestRank ==
    LET best == {i \in 1..Len(observed) : rankOf(observed[i].conditionDescription) = bestRank}
    IN  observed[CHOOSE i \in best : \A j \in best : i <= j].conditionDescription

\* C22 (as stated): getWorstCondition returns the first-seen description of
\* the highest rank, a description being ranked by the canonical label it
\* contains (icy/ice > snow > slush > wet > dry) whatever its letter case, and
\* returns null when nothing is observed or the best rank is dry or
\* unrecognized.
C22_WorstCondition ==
    worstCondition # null =>
        Val(worstCondition) = IF bestRank <= 1 THEN null ELSE Some(firstOfBestRank)

results == Val(segmentResults)

segmentAt(k) == ConfiguredSegments[k]

\* the raw incident is on the segment: its route matches, its direction is
\* the segment's (or both), its start marker is between the two ends of the
\* segment
onSegment(raw, k) ==
    LET bounds == segmentAt(k).bounds
    IN  /\ routeMatches(raw.routeName, bounds.routeId)
        /\ \/ cleaned(raw.direction) = <<"b", "o", "t", "h">>
           \/ cleaned(raw.direction) = cleaned(bounds.direction)
           \/ sameDirection(raw.direction, bounds.direction)
        /\ between(raw.startMarker, bounds.startMM, bounds.endMM)

matchedIds(k) ==
    {rawData.incidents[i].id : i \in {j \in 1..Len(rawData.incidents) :
                                          onSegment(rawData.incidents[j], k)}}

idsOf(list) == {list[i].id : i \in 1..Len(list)}

\* the records of list whose id is in ids, in the order of list
RECURSIVE keptFrom(_, _, _)
keptFrom(list, i, ids) ==
    IF i > Len(list) THEN <<>>
    ELSE (IF list[i].id \in ids THEN <<list[i]>> ELSE <<>>) \o keptFrom(list, i + 1, ids)

\* C23: the incidents of each segment are exactly the normalized incidents
\* whose id is the id of a raw incident whose route matches the segment's
\* route, whose direction matches the segment's direction and whose start
\* marker lies within the segment's bounds, both ends included, whatever the
\* span of the incident is.
C23_IncidentsOfSegment ==
    segmentResults # null =>
        \A k \in 1..Len(ConfiguredSegments) :
            results[k].incidents = keptFrom(Val(normalizedIncidents), 1, matchedIds(k))

C23_Witness ==
    /\ segmentResults # null
    /\ Len(rawData.incidents) = 2
    /\ rawData.incidents[1].id # rawData.incidents[2].id
    /\ rawData.incidents[1].startMarker = 222 /\ rawData.incidents[1].endMarker = 226
    /\ rawData.incidents[2].startMarker = 210 /\ rawData.incidents[2].endMarker = 215
    /\ idsOf(results[1].incidents) = {rawData.incidents[1].id}
    /\ results[2].incidents = <<>>

noDestination(k) ==
    \A i \in 1..Len(rawData.destinations) :
        rawData.destinations[i].name # segmentAt(k).destinationName

spanTouches(condition, k) ==
    \E x \in 200..240 :
        /\ between(x, segmentAt(k).bounds.startMM, segmentAt(k).bounds.endMM)
        /\ between(x, condition.primaryMP, condition.secondaryMP)

noCondition(k) ==
    \A i \in 1..Len(rawData.conditions) : ~spanTouches(rawData.conditions[i], k)

nothingMatches(k) == noDestination(k) /\ matchedIds(k) = {} /\ noCondition(k)

\* C24: processSegments yields one SegmentData per configured segment, in
\* order; a segment for which no destination has exactly its data-source
\* name, no incident matches and no condition overlaps gets null travel time
\* and speed, no anomaly flag, no incidents and no road condition, and its
\* flow score is the neutral 5.
C24_MissingDataDegrades ==
    segmentResults # null =>
        /\ Len(results) = Len(ConfiguredSegments)
        /\ \A k \in 1..Len(ConfiguredSegments) :
              /\ results[k].segment = segmentAt(k).name
              /\ nothingMatches(k) =>
                    /\ results[k].travelTimeSeconds = null
                    /\ results[k].impliedSpeedMph = null
                    /\ results[k].speedAnomalyDetected = FALSE
                    /\ results[k].incidents = <<>>
                    /\ results[k].roadCondition = null
                    /\ calculateVibeScore(results[k]).flowScore = R(5)

C24_Witness ==
    /\ segmentResults # null
    /\ Len(rawData.destinations) = 2
    /\ rawData.destinations[1].name = "070W224 Silverplume Chainup to Tunnel"
    /\ rawData.destinations[1].travelTime = 720
    /\ rawData.destinations[2].name = segmentAt(2).destinationName
    /\ nothingMatches(1)
    /\ results[1].travelTimeSeconds = null
    /\ results[2].travelTimeSeconds = Some(720)

\* the first destination that has the segment's data-source name
matchedDestination(k) ==
    LET named == {i \in 1..Len(rawData.destinations) :
                      rawData.destinations[i].name = segmentAt(k).destinationName}
    IN  rawData.destinations[CHOOSE i \in named : \A j \in named : i <= j]

lengthOf(k) ==
    LET a == segmentAt(k).bounds.startMM
        b == segmentAt(k).bounds.endMM
    IN  IF a <= b THEN b - a ELSE a - b

\* C25: when a destination matches the segment with a positive travel time,
\* the implied speed is |startMM - endMM| / (travelTime / 3600) mph, the flag
\* is set exactly when that speed exceeds 85 mph, and the speed is still
\* reported, as the nearest whole number, when the flag is set; 10.5 miles in
\* 60 s is 630 mph, above the threshold.
C25_ImpliedSpeed ==
    /\ impliedSpeed(Q(21, 2), 60) = R(630)
    /\ segmentResults # null =>
          \A k \in 1..Len(ConfiguredSegments) :
              ~noDestination(k) /\ matchedDestination(k).travelTime > 0 =>
                  LET t == matchedDestination(k).travelTime
                      miles == lengthOf(k)
                  IN  /\ results[k].speedAnomalyDetected = (miles * 3600 > 85 * t)
                      /\ results[k].speedAnomalyDetected => results[k].impliedSpeedMph # null
                      /\ results[k].impliedSpeedMph # null =>
                            2 * Abs(Val(results[k].impliedSpeedMph) * t - miles * 3600) <= t

C25_Witness ==
    /\ segmentResults # null
    /\ ~noDestination(1) /\ matchedDestination(1).travelTime = 465
    /\ results[1].speedAnomalyDetected
    /\ results[1].impliedSpeedMph = Some(85)
    /\ ~noDestination(2) /\ matchedDestination(2).travelTime = 720
    /\ ~results[2].speedAnomalyDetected
    /\ results[2].impliedSpeedMph = Some(20)

====
